---- MODULE Spec2Model ----
(***************************************************************************)
(* Document-grounded chat backend: the vector store adapter                *)
(* (pinecone-client.js), the Pinecone-backed chatbot routes and the        *)
(* in-memory chatbot routes (chatbot-api-pinecone.js).                     *)
(*                                                                         *)
(* A request is a task that runs from one remote call to the next; every   *)
(* action below is the code a handler runs between two suspension points.  *)
(* Strings are sequences of chunks (one character each where the code      *)
(* inspects them), texts are run-length encoded character sequences.       *)
(***************************************************************************)
EXTENDS Integers, Sequences, FiniteSets, TLC

(***************************************************************************)
(* Bounds of the model                                                     *)
(***************************************************************************)
MaxReq == 2
MaxServed == 2
MaxFiles == 2
MaxIngest == 2
MaxClock == 2
MaxStock == 4

(***************************************************************************)
(* Program constants                                                       *)
(***************************************************************************)
ContentLimit == 40000
ExcerptLimit == 2000
ChatTopK == 3
FallbackTake == 3
ListTopK == 100
QuotaStatus == 429

Req == 1..MaxReq

(***************************************************************************)
(* Strings                                                                 *)
(***************************************************************************)
Digit(d) ==
    CASE d = 0 -> "0" [] d = 1 -> "1" [] d = 2 -> "2" [] d = 3 -> "3"
      [] d = 4 -> "4" [] d = 5 -> "5" [] d = 6 -> "6" [] d = 7 -> "7"
      [] d = 8 -> "8" [] OTHER -> "9"

RECURSIVE Decimal(_)
\* the decimal numeral a template literal prints for a non-negative integer
Decimal(n) ==
    IF n < 10 THEN <<Digit(n)>> ELSE Decimal(n \div 10) \o <<Digit(n % 10)>>

\* String.prototype.includes: sub occurs in s as a contiguous subsequence
includes(s, sub) ==
    \E k \in 0..(Len(s) - Len(sub)) : SubSeq(s, k + 1, k + Len(sub)) = sub

\* Date.prototype.toISOString of the instant t
toISOString(t) == <<"T">> \o Decimal(t)

(***************************************************************************)
(* Texts: a sequence of runs [c |-> character code, n |-> repetitions]     *)
(***************************************************************************)
WhiteSpace == {9, 10, 11, 12, 13, 32}

RECURSIVE length(_)
length(t) == IF t = <<>> THEN 0 ELSE t[1].n + length(Tail(t))

RECURSIVE trimStart(_)
trimStart(t) ==
    IF t # <<>> /\ t[1].c \in WhiteSpace THEN trimStart(Tail(t)) ELSE t

RECURSIVE trimEnd(_)
trimEnd(t) ==
    IF t # <<>> /\ t[Len(t)].c \in WhiteSpace
    THEN trimEnd(SubSeq(t, 1, Len(t) - 1))
    ELSE t

trim(t) == trimEnd(trimStart(t))

RECURSIVE substring(_, _)
\* t.substring(0, k)
substring(t, k) ==
    IF t = <<>> \/ k <= 0 THEN <<>>
    ELSE IF t[1].n <= k THEN <<t[1]>> \o substring(Tail(t), k - t[1].n)
    ELSE <<[c |-> t[1].c, n |-> k]>>

\* Buffer.toString('latin1'): every byte is the character of the same code
toStringUtf8_Latin1(buf) == buf

\* Buffer.toString('utf-8') on buffers of ASCII bytes and stray bytes >= 128:
\* an ASCII byte is its character, a stray byte becomes U+FFFD
toStringUtf8(buf) ==
    [k \in 1..Len(buf) |->
        IF buf[k].c < 128 THEN buf[k] ELSE [c |-> 65533, n |-> buf[k].n]]

\* the test without its trim() half: white space counts as text
IsBlankText_EmptyOnly(t) == t = <<>>

\* the test left out: every extraction counts as text
IsBlankText_Never(t) == FALSE

\* !extractedText || extractedText.trim().length === 0
IsBlankText(t) == t = <<>> \/ length(trim(t)) = 0

(***************************************************************************)
(* Input domains                                                           *)
(***************************************************************************)
SA == <<"s">>
SB == <<"s", "_", "1">>
NoSession == <<>>
SessionIds == {SA, SB}

NA == <<"f">>
NB == <<"1", "_", "f">>

M1 == <<[c |-> 104, n |-> 1], [c |-> 105, n |-> 1]>>
NoMessage == <<>>

BufKiln == <<[c |-> 75, n |-> 39]>>
\* an ASCII byte followed by a byte that is not valid UTF-8 on its own
BufMemo == <<[c |-> 77, n |-> 1], [c |-> 233, n |-> 1]>>
BufPdf == <<[c |-> 37, n |-> 4]>>

File(name, mime, buf) ==
    [originalname |-> name, mimetype |-> mime, buffer |-> buf, size |-> length(buf)]

\* uploaded files that multer's fileFilter lets through: two plain-text files
\* of the same name, one of another name, and a PDF
Files ==
    { File(NA, "text/plain", BufKiln), File(NA, "text/plain", BufMemo),
      File(NB, "text/plain", BufKiln), File(NA, "application/pdf", BufPdf) }

Batches == UNION { [1..k -> Files] : k \in 0..MaxFiles }

\* texts the generative model may return for an extraction: a text, the
\* empty text, a text of white space only
TextDoc == <<[c |-> 68, n |-> 39999], [c |-> 69, n |-> 2]>>
TextBlank == <<[c |-> 32, n |-> 1], [c |-> 10, n |-> 1]>>
ExtractedTexts == { TextDoc, <<>>, TextBlank }

\* text of a chat answer
TextAnswer == <<[c |-> 65, n |-> 3]>>

\* errors a remote call may reject with: [status, message]
NoMessageField == <<"undefined">>
ErrQuota429 == [status |-> QuotaStatus, hasMessage |-> TRUE, message |-> <<"b", "u", "s", "y">>]
ErrQuotaMsg == [status |-> 400, hasMessage |-> TRUE, message |-> <<"q", "u", "o", "t", "a">>]
ErrQuota429Bare == [status |-> QuotaStatus, hasMessage |-> FALSE, message |-> NoMessageField]
ErrOther == [status |-> 500, hasMessage |-> TRUE, message |-> <<"Q", "u", "o", "t", "a">>]
ErrBare == [status |-> 500, hasMessage |-> FALSE, message |-> NoMessageField]
\* the rejection of the embedding model or of the remote index: a quota is
\* exhausted
StoreErrors == {ErrQuotaMsg}

RemoteErrors == {ErrQuota429, ErrQuotaMsg, ErrQuota429Bare, ErrOther, ErrBare}

\* the test without its message half
IsQuotaError_StatusOnly(e) == e.status = QuotaStatus

\* the test taking any rejection that carries a status for a quota error
IsQuotaError_AnyStatus(e) == e.status > 0

\* error.status === 429 || error.message.includes('quota'); the second operand
\* throws a TypeError when the rejection carries no message
IsQuotaError(e) == e.status = QuotaStatus \/ (e.hasMessage /\ includes(e.message, <<"q", "u", "o", "t", "a">>))
QuotaTestThrows(e) == e.status # QuotaStatus /\ ~e.hasMessage

(***************************************************************************)
(* Maps that keep insertion order (a JavaScript Map): a sequence of        *)
(* [key, val] entries; set() on a key already present replaces the value   *)
(* in place.                                                               *)
(***************************************************************************)
MapHas(m, key) == \E k \in 1..Len(m) : m[k].key = key

MapSet(m, key, val) ==
    IF MapHas(m, key)
    THEN [k \in 1..Len(m) |-> IF m[k].key = key THEN [key |-> key, val |-> val] ELSE m[k]]
    ELSE Append(m, [key |-> key, val |-> val])

MapGet(m, key) == m[CHOOSE k \in 1..Len(m) : m[k].key = key].val

\* Array.from(m.values())
MapValues(m) == [k \in 1..Len(m) |-> m[k].val]

\* the scan without its test: every stored document is taken
FilterSeq_All(docs, sessionId) == docs

RECURSIVE FilterSeq(_, _)
\* Array.prototype.filter with the test doc.sessionId === sessionId
FilterSeq(docs, sessionId) ==
    IF docs = <<>> THEN <<>>
    ELSE IF docs[1].sessionId = sessionId
         THEN <<docs[1]>> \o FilterSeq(Tail(docs), sessionId)
         ELSE FilterSeq(Tail(docs), sessionId)

\* Array.prototype.slice(0, k)
slice(s, k) == SubSeq(s, 1, IF Len(s) < k THEN Len(s) ELSE k)

\* object spread {...a, ...b}: b's keys win
Spread(a, b) ==
    [k \in (DOMAIN a) \cup (DOMAIN b) |-> IF k \in DOMAIN b THEN b[k] ELSE a[k]]

(***************************************************************************)
(* State                                                                   *)
(***************************************************************************)
VARIABLES
    variant,            \* which chatbot module server.js loaded
    apiKey,             \* PineconeClient.apiKey: whether a key was configured
    initialized,        \* PineconeClient.initialized
    index,              \* the remote vector index: id -> metadata
    fallbackSessions,   \* Pinecone variant: sessionId -> session
    fallbackDocuments,  \* Pinecone variant: docKey -> document, in insertion order
    sessions,           \* in-memory variant: sessionId -> session
    documents,          \* in-memory variant: documentId -> document, in insertion order
    now,                \* the instant the wall clock shows; it moves on when
                        \* Date.now() is read for a document id
    req,                \* the request tasks: locals and position of each handler
    ingested,           \* history: one entry per ingestion that returned a result
    pushed,             \* history: one entry per session.messages.push, in the order
                        \* the pushes ran
    served              \* history: [requests, files] accepted so far

vars == <<variant, apiKey, initialized, index, fallbackSessions, fallbackDocuments,
          sessions, documents, now, req, ingested, pushed, served>>

Undefined == [defined |-> FALSE, success |-> FALSE]
Defined(ok) == [defined |-> TRUE, success |-> ok]
\* { success: false, error: error.message }
Failed(error) == [defined |-> TRUE, success |-> FALSE, error |-> error]
NoSearch == [defined |-> FALSE, success |-> FALSE, documents |-> <<>>]
NoSessionObject == [ref |-> "none", id |-> <<>>, createdAt |-> 0, messages |-> <<>>]
NoPrompt == [grounded |-> FALSE, sections |-> <<>>, question |-> <<>>]
NoVector == [id |-> <<>>, metadata |-> <<>>]
NoRes == [status |-> 0]
NoError == [status |-> 0, hasMessage |-> FALSE, message |-> <<>>]
\* how often a handler has invoked pinecone.healthCheck, pinecone.searchDocuments
\* and model.generateContent
NoCalls == [health |-> 0, search |-> 0, generate |-> 0]

\* the arguments of a call of storeDocument
NoArgs == [sessionId |-> <<>>, documentId |-> <<>>, content |-> <<>>, metadata |-> <<>>]

IdleReq ==
    [kind |-> "none", pc |-> "idle", n |-> 0, sessionId |-> <<>>, message |-> <<>>,
     files |-> <<>>, i |-> 0, extractedText |-> <<>>, documentId |-> <<>>,
     vector |-> NoVector, pineconeResult |-> Undefined, healthCheck |-> Undefined,
     results |-> <<>>, errors |-> <<>>,
     session |-> NoSessionObject, pineconeSearchResult |-> NoSearch,
     relevantDocs |-> <<>>, prompt |-> NoPrompt,
     error |-> NoError, res |-> NoRes, calls |-> NoCalls, args |-> NoArgs]

EmptyIndex == [id \in {} |-> <<>>]

\* the result of PineconeClient.initialize: it throws without a key, and with
\* one it builds the client and the index handle without a remote call
initialize ==
    IF apiKey THEN [success |-> TRUE]
    ELSE [success |-> FALSE, error |-> <<"Pinecone API key not provided">>]

Init ==
    /\ variant \in {"pinecone", "memory"}
    /\ apiKey \in IF variant = "pinecone" THEN BOOLEAN ELSE {FALSE}
    /\ initialized = FALSE
    /\ index = EmptyIndex
    /\ fallbackSessions = [s \in {} |-> NoSessionObject]
    /\ fallbackDocuments = <<>>
    /\ sessions = [s \in {} |-> NoSessionObject]
    /\ documents = <<>>
    /\ now = 1
    /\ req = [r \in Req |-> IdleReq]
    /\ ingested = <<>>
    /\ pushed = <<>>
    /\ served = [requests |-> 0, files |-> 0]

\* a request takes the lowest free task slot; at most MaxServed requests and
\* MaxIngest uploaded files are accepted in one run
CanSubmit(r) ==
    /\ req[r].pc = "idle"
    /\ \A r2 \in Req : r2 < r => req[r2].pc # "idle"
    /\ served.requests < MaxServed

\* the handler's frame is dropped once its response is sent; the other tasks
\* go on after that
Collect(r) ==
    /\ req[r].pc = "done"
    /\ req' = [req EXCEPT ![r] = IdleReq]
    /\ UNCHANGED <<variant, apiKey, initialized, index, fallbackSessions, fallbackDocuments,
                   sessions, documents, now, ingested, pushed, served>>

NoneDone == \A r \in Req : req[r].pc # "done"

(***************************************************************************)
(* POST /upload                                                            *)
(***************************************************************************)
\* res.json of the upload handler; errors |-> <<>> stands for errors: undefined
UploadResponse(results, errors) ==
    [status |-> 200, success |-> TRUE, processed |-> Len(results),
     results |-> results, errors |-> errors]

\* the handler without its test of req.files: an empty batch runs the loop
\* zero times and is answered with success
UploadStart_NoFilesTest(r) ==
    /\ CanSubmit(r)
    /\ \E s \in SessionIds \cup {NoSession}, fs \in Batches :
         /\ served.files + Len(fs) <= MaxIngest
         /\ served' = [requests |-> served.requests + 1, files |-> served.files + Len(fs)]
         /\ LET q == [IdleReq EXCEPT !.kind = "upload", !.n = served.requests + 1,
                                     !.sessionId = s, !.files = fs]
            IN req' = [req EXCEPT ![r] =
                   IF s = NoSession
                   THEN [q EXCEPT !.pc = "done",
                                  !.res = [status |-> 400, error |-> "Session ID is required"]]
                   ELSE IF Len(fs) = 0
                   THEN [q EXCEPT !.pc = "done", !.res = UploadResponse(<<>>, <<>>)]
                   ELSE [q EXCEPT !.pc = "file", !.i = 1]]
    /\ UNCHANGED <<variant, apiKey, initialized, index, fallbackSessions, fallbackDocuments,
                   sessions, documents, now, ingested, pushed>>

\* the validation of router.post('/upload') and the start of its loop
UploadStart(r) ==
    /\ CanSubmit(r)
    /\ \E s \in SessionIds \cup {NoSession}, fs \in Batches :
         /\ served.files + Len(fs) <= MaxIngest
         /\ served' = [requests |-> served.requests + 1, files |-> served.files + Len(fs)]
         /\ LET q == [IdleReq EXCEPT !.kind = "upload", !.n = served.requests + 1,
                                     !.sessionId = s, !.files = fs]
            IN req' = [req EXCEPT ![r] =
                   IF s = NoSession
                   THEN [q EXCEPT !.pc = "done",
                                  !.res = [status |-> 400, error |-> "Session ID is required"]]
                   ELSE IF Len(fs) = 0
                   THEN [q EXCEPT !.pc = "done",
                                  !.res = [status |-> 400, error |-> "No files uploaded"]]
                   ELSE [q EXCEPT !.pc = "file", !.i = 1]]
    /\ UNCHANGED <<variant, apiKey, initialized, index, fallbackSessions, fallbackDocuments,
                   sessions, documents, now, ingested, pushed>>

\* the loop without its per-file try/catch: a file's error reaches the outer
\* catch of the handler and ends the request
AfterFile_AbortOnError(q, ok, item) ==
    IF ok
    THEN LET q1 == [q EXCEPT !.results = Append(@, item)]
         IN IF q.i < Len(q.files)
            THEN [q1 EXCEPT !.i = @ + 1, !.pc = "file"]
            ELSE [q1 EXCEPT !.pc = "done", !.res = UploadResponse(q1.results, q1.errors)]
    ELSE [q EXCEPT !.pc = "done",
                   !.res = [status |-> 500, error |-> "Failed to process documents",
                            details |-> item.error]]

\* the loop putting each result and error at the front of its list
AfterFile_Unshift(q, ok, item) ==
    LET q1 == IF ok THEN [q EXCEPT !.results = <<item>> \o @]
                    ELSE [q EXCEPT !.errors = <<item>> \o @]
    IN IF q.i < Len(q.files)
       THEN [q1 EXCEPT !.i = @ + 1, !.pc = "file"]
       ELSE [q1 EXCEPT !.pc = "done", !.res = UploadResponse(q1.results, q1.errors)]

\* the end of one iteration of for (const file of req.files): the result or
\* the error is pushed, then the next file starts or the response is sent
AfterFile(q, ok, item) ==
    LET q1 == IF ok THEN [q EXCEPT !.results = Append(@, item)]
                    ELSE [q EXCEPT !.errors = Append(@, item)]
    IN IF q.i < Len(q.files)
       THEN [q1 EXCEPT !.i = @ + 1, !.pc = "file"]
       ELSE [q1 EXCEPT !.pc = "done", !.res = UploadResponse(q1.results, q1.errors)]

\* `${sessionId}_${Date.now()}_${file.originalname}`
documentId(sessionId, t, originalname) ==
    sessionId \o <<"_">> \o Decimal(t) \o <<"_">> \o originalname

\* `${sessionId}_${documentId}`
docKey(sessionId, docId) == sessionId \o <<"_">> \o docId

\* the metadata processAndStoreFile hands to storeDocument
CallerMetadata(file) ==
    [filename |-> file.originalname, mimetype |-> file.mimetype, size |-> file.size]

\* the vector carrying the whole content
Vector_WholeContent(sessionId, docId, content, metadata, t) ==
    [id |-> docId,
     metadata |-> Spread(Spread([sessionId |-> sessionId, content |-> content], metadata),
                         [timestamp |-> toISOString(t)])]

\* the vector storeDocument builds
Vector(sessionId, docId, content, metadata, t) ==
    [id |-> docId,
     metadata |-> Spread(Spread([sessionId |-> sessionId,
                                 content |-> substring(content, ContentLimit)],
                                metadata),
                         [timestamp |-> toISOString(t)])]

\* index.upsert([vector])
upsert(idx, vector) ==
    [k \in (DOMAIN idx) \cup {vector.id} |->
        IF k = vector.id THEN vector.metadata ELSE idx[k]]

\* the document processAndStoreFile writes into fallbackDocuments
FallbackDocument(q, file, t) ==
    [id |-> q.documentId, sessionId |-> q.sessionId, content |-> q.extractedText,
     metadata |-> [filename |-> file.originalname, mimetype |-> file.mimetype,
                   size |-> file.size, timestamp |-> toISOString(t)]]

\* the tier reported without looking at storeDocument's result
StorageOf_AlwaysPinecone(pineconeResult) == "pinecone"

\* the storage tier processAndStoreFile reports
StorageOf(pineconeResult) == IF pineconeResult.success THEN "pinecone" ELSE "fallback"

\* the result reporting the length of the copy storeDocument keeps
IngestResult_StoredLength(q, file, storage) ==
    [success |-> TRUE, documentId |-> q.documentId, filename |-> file.originalname,
     textLength |-> length(substring(q.extractedText, ContentLimit)), storage |-> storage]

\* the result record processAndStoreFile returns
IngestResult(q, file, storage) ==
    [success |-> TRUE, documentId |-> q.documentId, filename |-> file.originalname,
     textLength |-> length(q.extractedText), storage |-> storage]

Ingestion(r, q, storage) ==
    [req |-> q.n, file |-> q.i, documentId |-> q.documentId, sessionId |-> q.sessionId,
     content |-> q.extractedText, storage |-> storage]

\* extractTextWithGemini without its quota test
ExtractionError_AlwaysGeneric(filename, e) ==
    <<"Failed to extract text from ">> \o filename \o <<": ">> \o
    <<"Failed to extract text from document">>

\* the message of the error extractTextFromDocument throws for a rejection e
ExtractionError(filename, e) ==
    <<"Failed to extract text from ">> \o filename \o <<": ">> \o
    ( IF QuotaTestThrows(e) THEN <<"Cannot read properties of undefined">>
      ELSE IF IsQuotaError(e)
      THEN <<"API quota exceeded. Please try again later or upload PDF/TXT files for better processing.">>
      ELSE <<"Failed to extract text from document">> )

(***************************************************************************)
(* processAndStoreFile, Pinecone variant.  Set(...) gives every variable   *)
(* its next value.                                                         *)
(***************************************************************************)
Set(r, q, init2, idx2, fdocs2, t2, ing2) ==
    /\ req' = [req EXCEPT ![r] = q]
    /\ initialized' = init2
    /\ index' = idx2
    /\ fallbackDocuments' = fdocs2
    /\ now' = t2
    /\ ingested' = ing2
    /\ UNCHANGED <<variant, apiKey, fallbackSessions, sessions, documents, pushed, served>>

\* the same for the steps of the chat and session handlers
SetPush(r, q, init2, fsess2, t2, srv2, push2) ==
    /\ req' = [req EXCEPT ![r] = q]
    /\ initialized' = init2
    /\ fallbackSessions' = fsess2
    /\ now' = t2
    /\ served' = srv2
    /\ pushed' = push2
    /\ UNCHANGED <<variant, apiKey, index, fallbackDocuments, sessions, documents, ingested>>

SetChat(r, q, init2, fsess2, t2, srv2) == SetPush(r, q, init2, fsess2, t2, srv2, pushed)

\* the record kept of a session.messages.push of the chat task q
Push(q) == [req |-> q.n, sessionId |-> q.sessionId, ref |-> q.session.ref]

\* storeDocument without its try/catch: the failure is thrown, processAndStoreFile
\* re-throws it and the upload loop records the file as failed
StoreInFallback_Throws(r, q, init2, t, error) ==
    Set(r, AfterFile(q, FALSE, [filename |-> q.files[q.i].originalname, error |-> error]),
        init2, index, fallbackDocuments, t, ingested)

\* the else branch of if (pineconeResult.success): the document goes to
\* fallbackDocuments, stamped with the instant t
StoreInFallback(r, q, init2, t, error) ==
    LET file == q.files[q.i]
        q1 == [q EXCEPT !.pineconeResult = Failed(error)]
        storage == StorageOf(q1.pineconeResult)
    IN Set(r, AfterFile(q1, TRUE, IngestResult(q1, file, storage)), init2, index,
           MapSet(fallbackDocuments, docKey(q1.sessionId, q1.documentId),
                  FallbackDocument(q1, file, t)),
           t, Append(ingested, Ingestion(r, q1, storage)))

\* the then branch: storeDocument has upserted the vector
StoredInPinecone(r, q) ==
    LET file == q.files[q.i]
        q1 == [q EXCEPT !.pineconeResult = Defined(TRUE)]
        storage == StorageOf(q1.pineconeResult)
    IN Set(r, AfterFile(q1, TRUE, IngestResult(q1, file, storage)), initialized,
           upsert(index, q1.vector), fallbackDocuments, now,
           Append(ingested, Ingestion(r, q1, storage)))

\* processAndStoreFile from the extracted text on: the blank test, the
\* document id and storeDocument up to its first remote call
AfterExtract(r, q0, text) ==
    LET q == [q0 EXCEPT !.extractedText = text]
        file == q.files[q.i]
    IN IF IsBlankText(text)
       THEN Set(r, AfterFile(q, FALSE,
                             [filename |-> file.originalname,
                              error |-> <<"No text could be extracted from the document">>]),
                initialized, index, fallbackDocuments, now, ingested)
       ELSE \E t1 \in now..MaxClock :
              LET q1 == [q EXCEPT !.documentId = documentId(q.sessionId, t1, file.originalname)]
              IN IF initialized
                 THEN Set(r, [q1 EXCEPT !.pc = "embed"],
                          initialized, index, fallbackDocuments, t1, ingested)
                 ELSE \E ok \in {initialize.success} :
                        IF ok
                        THEN Set(r, [q1 EXCEPT !.pc = "embed"],
                                 TRUE, index, fallbackDocuments, t1, ingested)
                        ELSE StoreInFallback(r, q1, FALSE, t1, initialize.error)

\* one iteration of the upload loop starts: extractTextFromDocument
UploadFile(r) ==
    /\ variant = "pinecone"
    /\ req[r].pc = "file"
    /\ LET q == req[r]
           file == q.files[q.i]
       IN IF file.mimetype = "text/plain"
          THEN AfterExtract(r, q, toStringUtf8(file.buffer))
          ELSE Set(r, [q EXCEPT !.pc = "extract", !.error = NoError],
                   initialized, index, fallbackDocuments, now, ingested)

\* model.generateContent of extractTextWithGemini returns a text
ExtractReturn(r) ==
    /\ variant = "pinecone"
    /\ req[r].pc = "extract"
    /\ \E text \in ExtractedTexts : AfterExtract(r, req[r], text)

\* the rejection caught by no one: the handler ends without a response
ExtractFail_Unhandled(r) ==
    /\ variant = "pinecone"
    /\ req[r].pc = "extract"
    /\ \E e \in RemoteErrors :
         Set(r, [req[r] EXCEPT !.pc = "abandoned", !.extractedText = <<>>],
             initialized, index, fallbackDocuments, now, ingested)

\* model.generateContent of extractTextWithGemini rejects; error is the caught
\* rejection of this file's call
ExtractFail(r) ==
    /\ variant = "pinecone"
    /\ req[r].pc = "extract"
    /\ \E e \in RemoteErrors :
         LET q == [req[r] EXCEPT !.extractedText = <<>>, !.error = e]
             file == q.files[q.i]
         IN Set(r, AfterFile(q, FALSE, [filename |-> file.originalname,
                                        error |-> ExtractionError(file.originalname, e)]),
                initialized, index, fallbackDocuments, now, ingested)

\* generateEmbedding of storeDocument returns: the vector is built and upserted
EmbedReturn(r) ==
    /\ variant = "pinecone"
    /\ req[r].pc = "embed"
    /\ LET q == req[r]
           file == q.files[q.i]
       IN Set(r, [q EXCEPT !.pc = "upsert",
                           !.vector = Vector(q.sessionId, q.documentId, q.extractedText,
                                             CallerMetadata(file), now)],
              initialized, index, fallbackDocuments, now, ingested)

\* the embedding failure thrown on to processAndStoreFile: the file is
\* recorded as failed
EmbedFail_Propagates(r) ==
    /\ variant = "pinecone"
    /\ req[r].pc = "embed"
    /\ \E e \in StoreErrors :
         Set(r, AfterFile(req[r], FALSE, [filename |-> req[r].files[req[r].i].originalname,
                                          error |-> e.message]),
             initialized, index, fallbackDocuments, now, ingested)

\* generateEmbedding of storeDocument throws: storeDocument returns a failure
EmbedFail(r) ==
    /\ variant = "pinecone"
    /\ req[r].pc = "embed"
    /\ \E e \in StoreErrors : StoreInFallback(r, req[r], initialized, now, e.message)

\* index.upsert resolves
UpsertReturn(r) ==
    /\ variant = "pinecone"
    /\ req[r].pc = "upsert"
    /\ StoredInPinecone(r, req[r])

\* index.upsert rejects: storeDocument returns a failure
UpsertFail(r) ==
    /\ variant = "pinecone"
    /\ req[r].pc = "upsert"
    /\ \E e \in StoreErrors : StoreInFallback(r, req[r], initialized, now, e.message)

(***************************************************************************)
(* POST /chat, Pinecone variant                                            *)
(***************************************************************************)
\* the query sent without its filter
QueryMatches_NoFilter(idx, sessionId) == DOMAIN idx

\* the ids index.query may return for the filter { sessionId: { $eq: sessionId } }
QueryMatches(idx, sessionId) ==
    { id \in DOMAIN idx : idx[id].sessionId = sessionId }

\* the answers of index.query: the matches, at most topK of them, in an order
\* the remote index chooses
QueryResults(idx, sessionId, topK) ==
    LET M == QueryMatches(idx, sessionId)
        n == IF Cardinality(M) < topK THEN Cardinality(M) ELSE topK
    IN { ids \in [1..n -> M] : \A a, b \in 1..n : a # b => ids[a] # ids[b] }

\* searchResults.matches.map(...) of searchDocuments
SearchDocuments(idx, ids) ==
    [k \in 1..Len(ids) |->
        [id |-> ids[k], content |-> idx[ids[k]].content, metadata |-> idx[ids[k]]]]

\* getOrCreateSession without its has() test: a fresh record is set every time
ResolveFallbackSession_AlwaysSet(fsess, sessionId, t) ==
    [k \in (DOMAIN fsess) \cup {sessionId} |->
        IF k = sessionId
        THEN [id |-> sessionId, createdAt |-> t, messages |-> <<>>]
        ELSE fsess[k]]

\* fallbackSessions.has / set / get of getOrCreateSession
ResolveFallbackSession(fsess, sessionId, t) ==
    IF sessionId \in DOMAIN fsess THEN fsess
    ELSE [k \in (DOMAIN fsess) \cup {sessionId} |->
            IF k = sessionId
            THEN [id |-> sessionId, createdAt |-> t, messages |-> <<>>]
            ELSE fsess[k]]

\* the documents taken from fallbackDocuments when the search gave none
FallbackScan(fdocs, sessionId) ==
    slice(FilterSeq(MapValues(fdocs), sessionId), FallbackTake)

\* the search result topped up from fallbackDocuments
RelevantDocs_Merged(searchResult, fdocs, sessionId) ==
    ( IF searchResult.success THEN searchResult.documents ELSE <<>> )
        \o FallbackScan(fdocs, sessionId)

\* relevantDocs after the retrieval step
RelevantDocs(searchResult, fdocs, sessionId) ==
    IF searchResult.success /\ Len(searchResult.documents) > 0
    THEN searchResult.documents
    ELSE FallbackScan(fdocs, sessionId)

\* the section heading built from the position alone
PromptFilename_Placeholder(doc, k) == <<"Document ">> \o Decimal(k)

\* doc.metadata?.filename || doc.filename || `Document ${index + 1}`
PromptFilename(doc, k) ==
    IF "filename" \in DOMAIN doc.metadata /\ doc.metadata.filename # <<>>
    THEN doc.metadata.filename
    ELSE <<"Document ">> \o Decimal(k)

\* the prompt: a 'Document:' section per relevant document, or the plain prompt
BuildPrompt(relevantDocs, message) ==
    [grounded |-> Len(relevantDocs) > 0,
     sections |-> [k \in 1..Len(relevantDocs) |->
                     [filename |-> PromptFilename(relevantDocs[k], k),
                      excerpt |-> substring(relevantDocs[k].content, ExcerptLimit)]],
     question |-> message]

\* the rest of the handler once searchDocuments has returned, up to the call
\* of model.generateContent
Retrieve(q, searchResult) ==
    LET docs == RelevantDocs(searchResult, fallbackDocuments, q.sessionId)
    IN [q EXCEPT !.pineconeSearchResult = searchResult,
                 !.relevantDocs = docs,
                 !.prompt = BuildPrompt(docs, q.message),
                 !.calls.generate = @ + 1,
                 !.pc = "generate"]

SearchFailure(error) ==
    [defined |-> TRUE, success |-> FALSE, error |-> error, documents |-> <<>>]
SearchSuccess(docs) == [defined |-> TRUE, success |-> TRUE, documents |-> docs]

\* searchDocuments up to its first remote call, after the session is resolved
SearchBegin(r, q0, init, fsess, t, srv) ==
    LET q == [q0 EXCEPT !.calls.search = @ + 1]
    IN IF init
       THEN SetChat(r, [q EXCEPT !.pc = "qembed"], init, fsess, t, srv)
       ELSE \E ok \in {initialize.success} :
              IF ok
              THEN SetChat(r, [q EXCEPT !.pc = "qembed"], TRUE, fsess, t, srv)
              ELSE SetChat(r, Retrieve(q, SearchFailure(initialize.error)), FALSE, fsess, t, srv)

\* getOrCreateSession keeping the session in fallbackSessions in both modes
SessionResolved_AlwaysRetained(r, q, health, init, t, srv) ==
    SearchBegin(r, [q EXCEPT !.healthCheck = health,
                             !.session = [ref |-> IF health.success THEN "transient"
                                                  ELSE "fallback",
                                          id |-> q.sessionId,
                                          createdAt |-> t, messages |-> <<>>]],
                init, ResolveFallbackSession(fallbackSessions, q.sessionId, t), t, srv)

\* getOrCreateSession once healthCheck has answered
SessionResolved(r, q, health, init, t, srv) ==
    IF health.success
    THEN SearchBegin(r, [q EXCEPT !.healthCheck = health,
                                  !.session = [ref |-> "transient", id |-> q.sessionId,
                                               createdAt |-> t, messages |-> <<>>]],
                     init, fallbackSessions, t, srv)
    ELSE SearchBegin(r, [q EXCEPT !.healthCheck = health,
                                  !.session = [ref |-> "fallback", id |-> q.sessionId,
                                               createdAt |-> t, messages |-> <<>>]],
                     init, ResolveFallbackSession(fallbackSessions, q.sessionId, t), t, srv)

\* the validation of router.post('/chat'), getOrCreateSession and healthCheck
\* up to describeIndexStats
ChatStart(r) ==
    /\ variant = "pinecone"
    /\ CanSubmit(r)
    /\ \E s \in SessionIds \cup {NoSession}, m \in {M1, NoMessage} :
         LET srv == [served EXCEPT !.requests = @ + 1]
             q == [IdleReq EXCEPT !.kind = "chat", !.n = srv.requests,
                                  !.sessionId = s, !.message = m]
         IN IF s = NoSession \/ m = NoMessage
            THEN SetChat(r, [q EXCEPT !.pc = "done",
                                      !.res = [status |-> 400,
                                               error |-> "Session ID and message are required"]],
                         initialized, fallbackSessions, now, srv)
            ELSE LET q1 == [q EXCEPT !.calls.health = @ + 1]
                 IN IF initialized
                    THEN SetChat(r, [q1 EXCEPT !.pc = "health"],
                                 initialized, fallbackSessions, now, srv)
                    ELSE \E ok \in {initialize.success} :
                           IF ok
                           THEN SetChat(r, [q1 EXCEPT !.pc = "health"],
                                        TRUE, fallbackSessions, now, srv)
                           ELSE SessionResolved(r, q1, Failed(initialize.error), FALSE, now, srv)

\* index.describeIndexStats resolves or rejects
HealthReturn(r) ==
    /\ variant = "pinecone"
    /\ req[r].pc = "health"
    /\ \E health \in {Defined(TRUE)} \cup { Failed(e.message) : e \in StoreErrors } :
         SessionResolved(r, req[r], health, initialized, now, served)

\* generateEmbedding of searchDocuments returns: index.query is called
QueryEmbedReturn(r) ==
    /\ variant = "pinecone"
    /\ req[r].pc = "qembed"
    /\ SetChat(r, [req[r] EXCEPT !.pc = "query"], initialized, fallbackSessions, now, served)

\* searchDocuments without its try/catch: the embedding failure reaches the
\* handler's outer catch
QueryEmbedFail_Throws(r) ==
    /\ variant = "pinecone"
    /\ req[r].pc = "qembed"
    /\ \E e \in StoreErrors :
         SetChat(r, [req[r] EXCEPT !.pc = "done",
                                   !.res = [status |-> 500,
                                            error |-> "Failed to process chat message",
                                            details |-> e.message]],
                 initialized, fallbackSessions, now, served)

\* generateEmbedding of searchDocuments throws
QueryEmbedFail(r) ==
    /\ variant = "pinecone"
    /\ req[r].pc = "qembed"
    /\ \E e \in StoreErrors :
         SetChat(r, Retrieve(req[r], SearchFailure(e.message)),
                 initialized, fallbackSessions, now, served)

\* index.query of searchDocuments resolves
QueryReturn(r) ==
    /\ variant = "pinecone"
    /\ req[r].pc = "query"
    /\ \E ids \in QueryResults(index, req[r].sessionId, ChatTopK) :
         SetChat(r, Retrieve(req[r], SearchSuccess(SearchDocuments(index, ids))),
                 initialized, fallbackSessions, now, served)

\* index.query of searchDocuments rejects
QueryFail(r) ==
    /\ variant = "pinecone"
    /\ req[r].pc = "query"
    /\ \E e \in StoreErrors :
         SetChat(r, Retrieve(req[r], SearchFailure(e.message)),
                 initialized, fallbackSessions, now, served)

\* storage: pineconeSearchResult.success ? 'pinecone' : 'fallback'
ChatStorage(searchResult) == IF searchResult.success THEN "pinecone" ELSE "fallback"

\* the push that stores the answer without the question
Conversation_AssistantOnly(message, aiResponse, t1, t2) ==
    << [role |-> "assistant", content |-> aiResponse, timestamp |-> t2] >>

\* the two messages session.messages.push appends
Conversation(message, aiResponse, t1, t2) ==
    << [role |-> "user", content |-> message, timestamp |-> t1],
       [role |-> "assistant", content |-> aiResponse, timestamp |-> t2] >>

\* model.generateContent resolves: the conversation is stored and the answer sent
GenerateReturn(r) ==
    /\ variant = "pinecone"
    /\ req[r].pc = "generate"
    /\ LET t1 == now IN
         LET q == req[r]
             msgs == Conversation(q.message, TextAnswer, t1, t1)
             res == [status |-> 200, success |-> TRUE, response |-> "answer",
                     text |-> TextAnswer,
                     documentsFound |-> Len(q.relevantDocs),
                     storage |-> ChatStorage(q.pineconeSearchResult), warning |-> FALSE]
         IN IF q.session.ref = "fallback"
            THEN SetPush(r, [q EXCEPT !.pc = "done", !.res = res], initialized,
                         [fallbackSessions EXCEPT ![q.sessionId].messages = @ \o msgs],
                         t1, served, Append(pushed, Push(q)))
            ELSE SetPush(r, [q EXCEPT !.pc = "done", !.res = res,
                                      !.session.messages = @ \o msgs],
                         initialized, fallbackSessions, t1, served, Append(pushed, Push(q)))

\* the response of the catch (geminiError) block for the rejection e
ChatFailureResponse(q, e) ==
    IF QuotaTestThrows(e)
    THEN [status |-> 500, error |-> "Failed to process chat message",
          details |-> <<"Cannot read properties of undefined">>]
    ELSE IF IsQuotaError(e)
    THEN [status |-> 200, success |-> TRUE, response |-> "canned",
          text |-> <<>>,
          documentsFound |-> Len(q.relevantDocs),
          storage |-> ChatStorage(q.pineconeSearchResult), warning |-> TRUE]
    ELSE [status |-> 500, error |-> "Failed to process chat message",
          details |-> e.message]

\* the quota branch calling model.generateContent once more instead of
\* answering with the canned response
GenerateFail_RetryOnQuota(r) ==
    /\ variant = "pinecone"
    /\ req[r].pc = "generate"
    /\ \E e \in RemoteErrors :
         IF ~QuotaTestThrows(e) /\ IsQuotaError(e) /\ req[r].calls.generate < 2
         THEN SetChat(r, [req[r] EXCEPT !.calls.generate = @ + 1],
                      initialized, fallbackSessions, now, served)
         ELSE SetChat(r, [req[r] EXCEPT !.pc = "done", !.error = e,
                                        !.res = ChatFailureResponse(req[r], e)],
                      initialized, fallbackSessions, now, served)

\* model.generateContent rejects
GenerateFail(r) ==
    /\ variant = "pinecone"
    /\ req[r].pc = "generate"
    /\ \E e \in RemoteErrors :
         SetChat(r, [req[r] EXCEPT !.pc = "done", !.error = e,
                                   !.res = ChatFailureResponse(req[r], e)],
                 initialized, fallbackSessions, now, served)

(***************************************************************************)
(* GET /session/:sessionId, Pinecone variant                               *)
(***************************************************************************)
\* the count without its test of doc.sessionId
FallbackCount_All(fdocs, sessionId) == Len(fdocs)

\* the count taken from fallbackDocuments
FallbackCount(fdocs, sessionId) == Len(FilterSeq(MapValues(fdocs), sessionId))

SessionResponse(sessionId, documentCount, storage) ==
    [status |-> 200, success |-> TRUE, sessionId |-> sessionId,
     documentCount |-> documentCount, storage |-> storage]

\* getSessionDocuments giving up when the client is not initialized, without
\* calling initialize
SessionStart_NoInit(r) ==
    /\ variant = "pinecone"
    /\ CanSubmit(r)
    /\ \E s \in SessionIds :
         LET srv == [served EXCEPT !.requests = @ + 1]
             q == [IdleReq EXCEPT !.kind = "session", !.n = srv.requests, !.sessionId = s]
             failed == [q EXCEPT !.pc = "done",
                                 !.pineconeResult = Failed(<<"Pinecone client not initialized">>),
                                 !.res = SessionResponse(s, FallbackCount(fallbackDocuments, s),
                                                         "fallback")]
         IN IF initialized
            THEN SetChat(r, [q EXCEPT !.pc = "list"], initialized, fallbackSessions, now, srv)
            ELSE SetChat(r, failed, FALSE, fallbackSessions, now, srv)

\* the handler up to index.query of getSessionDocuments
SessionStart(r) ==
    /\ variant = "pinecone"
    /\ CanSubmit(r)
    /\ \E s \in SessionIds :
         LET srv == [served EXCEPT !.requests = @ + 1]
             q == [IdleReq EXCEPT !.kind = "session", !.n = srv.requests, !.sessionId = s]
             failed == [q EXCEPT !.pc = "done", !.pineconeResult = Failed(initialize.error),
                                 !.res = SessionResponse(s, FallbackCount(fallbackDocuments, s),
                                                         "fallback")]
         IN IF initialized
            THEN SetChat(r, [q EXCEPT !.pc = "list"], initialized, fallbackSessions, now, srv)
            ELSE \E ok \in {initialize.success} :
                   IF ok
                   THEN SetChat(r, [q EXCEPT !.pc = "list"], TRUE, fallbackSessions, now, srv)
                   ELSE SetChat(r, failed, FALSE, fallbackSessions, now, srv)

\* index.query of getSessionDocuments resolves
ListReturn(r) ==
    /\ variant = "pinecone"
    /\ req[r].pc = "list"
    /\ \E ids \in QueryResults(index, req[r].sessionId, ListTopK) :
         SetChat(r, [req[r] EXCEPT !.pc = "done", !.pineconeResult = Defined(TRUE),
                                   !.res = SessionResponse(req[r].sessionId, Len(ids), "pinecone")],
                 initialized, fallbackSessions, now, served)

\* index.query of getSessionDocuments rejects
ListFail(r) ==
    /\ variant = "pinecone"
    /\ req[r].pc = "list"
    /\ \E e \in StoreErrors :
         SetChat(r, [req[r] EXCEPT !.pc = "done", !.pineconeResult = Failed(e.message),
                                   !.res = SessionResponse(req[r].sessionId,
                                              FallbackCount(fallbackDocuments, req[r].sessionId),
                                              "fallback")],
                 initialized, fallbackSessions, now, served)

(***************************************************************************)
(* The in-memory variant: sessions and documents maps, no vector store     *)
(***************************************************************************)
SetMemPush(r, q, sess2, docs2, t2, ing2, srv2, push2) ==
    /\ req' = [req EXCEPT ![r] = q]
    /\ sessions' = sess2
    /\ documents' = docs2
    /\ now' = t2
    /\ ingested' = ing2
    /\ served' = srv2
    /\ pushed' = push2
    /\ UNCHANGED <<variant, apiKey, initialized, index, fallbackSessions, fallbackDocuments>>

SetMem(r, q, sess2, docs2, t2, ing2, srv2) ==
    SetMemPush(r, q, sess2, docs2, t2, ing2, srv2, pushed)

\* the document processAndStoreFile writes into documents
MemDocument(q, file, t) ==
    [id |-> q.documentId, sessionId |-> q.sessionId, content |-> q.extractedText,
     metadata |-> [filename |-> file.originalname, mimetype |-> file.mimetype,
                   size |-> file.size, timestamp |-> toISOString(t)]]

\* processAndStoreFile from the extracted text on
MemAfterExtract(r, q0, text) ==
    LET q == [q0 EXCEPT !.extractedText = text]
        file == q.files[q.i]
    IN IF IsBlankText(text)
       THEN SetMem(r, AfterFile(q, FALSE,
                                [filename |-> file.originalname,
                                 error |-> <<"No text could be extracted from the document">>]),
                   sessions, documents, now, ingested, served)
       ELSE \E t1 \in now..MaxClock :
              LET q1 == [q EXCEPT !.documentId = documentId(q.sessionId, t1, file.originalname)]
              IN SetMem(r, AfterFile(q1, TRUE, IngestResult(q1, file, "memory")),
                        sessions,
                        MapSet(documents, q1.documentId, MemDocument(q1, file, t1)),
                        t1, Append(ingested, Ingestion(r, q1, "memory")), served)

\* one iteration of the upload loop starts: extractTextFromDocument
MemUploadFile(r) ==
    /\ variant = "memory"
    /\ req[r].pc = "file"
    /\ LET q == req[r]
           file == q.files[q.i]
       IN IF file.mimetype = "text/plain"
          THEN MemAfterExtract(r, q, toStringUtf8(file.buffer))
          ELSE SetMem(r, [q EXCEPT !.pc = "extract", !.error = NoError], sessions,
                      documents, now, ingested, served)

\* model.generateContent of extractTextWithGemini returns a text
MemExtractReturn(r) ==
    /\ variant = "memory"
    /\ req[r].pc = "extract"
    /\ \E text \in ExtractedTexts : MemAfterExtract(r, req[r], text)

\* the message of the error extractTextFromDocument throws for a rejection e
MemExtractionError(filename, e) ==
    <<"Failed to extract text from ">> \o filename \o <<": ">> \o
    ( IF QuotaTestThrows(e) THEN <<"Cannot read properties of undefined">>
      ELSE IF IsQuotaError(e) THEN <<"API quota exceeded. Please try again later.">>
      ELSE <<"Failed to extract text from document">> )

\* model.generateContent of extractTextWithGemini rejects; error is the caught
\* rejection of this file's call
MemExtractFail(r) ==
    /\ variant = "memory"
    /\ req[r].pc = "extract"
    /\ \E e \in RemoteErrors :
         LET q == [req[r] EXCEPT !.extractedText = <<>>, !.error = e]
             file == q.files[q.i]
         IN SetMem(r, AfterFile(q, FALSE, [filename |-> file.originalname,
                                           error |-> MemExtractionError(file.originalname, e)]),
                   sessions, documents, now, ingested, served)

\* sessions.has / set / get of getOrCreateSession
MemResolveSession(sess, sessionId, t) ==
    IF sessionId \in DOMAIN sess THEN sess
    ELSE [k \in (DOMAIN sess) \cup {sessionId} |->
            IF k = sessionId
            THEN [id |-> sessionId, createdAt |-> t, messages |-> <<>>]
            ELSE sess[k]]

\* Array.from(documents.values()).filter(doc => doc.sessionId === sessionId)
MemSessionDocs(docs, sessionId) == FilterSeq(MapValues(docs), sessionId)

\* the handler of router.post('/chat') up to model.generateContent
MemChatStart(r) ==
    /\ variant = "memory"
    /\ CanSubmit(r)
    /\ \E s \in SessionIds \cup {NoSession}, m \in {M1, NoMessage} :
         LET srv == [served EXCEPT !.requests = @ + 1]
             q == [IdleReq EXCEPT !.kind = "chat", !.n = srv.requests,
                                  !.sessionId = s, !.message = m]
             sessionDocs == MemSessionDocs(documents, s)
         IN IF s = NoSession \/ m = NoMessage
            THEN SetMem(r, [q EXCEPT !.pc = "done",
                                     !.res = [status |-> 400,
                                              error |-> "Session ID and message are required"]],
                        sessions, documents, now, ingested, srv)
            ELSE SetMem(r, [q EXCEPT !.pc = "generate",
                                     !.session = [ref |-> "memory", id |-> s,
                                                  createdAt |-> now, messages |-> <<>>],
                                     !.relevantDocs = sessionDocs,
                                     !.prompt = BuildPrompt(sessionDocs, m),
                                     !.calls.generate = @ + 1],
                        MemResolveSession(sessions, s, now), documents, now, ingested, srv)

\* model.generateContent resolves
MemGenerateReturn(r) ==
    /\ variant = "memory"
    /\ req[r].pc = "generate"
    /\ LET q == req[r]
           msgs == Conversation(q.message, TextAnswer, now, now)
       IN SetMemPush(r, [q EXCEPT !.pc = "done",
                                  !.res = [status |-> 200, success |-> TRUE,
                                           response |-> "answer", text |-> TextAnswer,
                                           documentsFound |-> Len(q.relevantDocs),
                                           storage |-> "memory", warning |-> FALSE]],
                     [sessions EXCEPT ![q.sessionId].messages = @ \o msgs],
                     documents, now, ingested, served, Append(pushed, Push(q)))

\* the response of the catch (geminiError) block for the rejection e
MemChatFailureResponse(q, e) ==
    IF QuotaTestThrows(e)
    THEN [status |-> 500, error |-> "Failed to process chat message",
          details |-> <<"Cannot read properties of undefined">>]
    ELSE IF IsQuotaError(e)
    THEN [status |-> 200, success |-> TRUE, response |-> "canned",
          text |-> <<>>,
          documentsFound |-> Len(q.relevantDocs),
          storage |-> "memory", warning |-> TRUE]
    ELSE [status |-> 500, error |-> "Failed to process chat message",
          details |-> e.message]

\* the catch block storing the question and the response it sends
MemGenerateFail_StoresConversation(r) ==
    /\ variant = "memory"
    /\ req[r].pc = "generate"
    /\ \E e \in RemoteErrors :
         SetMemPush(r, [req[r] EXCEPT !.pc = "done", !.error = e,
                                      !.res = MemChatFailureResponse(req[r], e)],
                    [sessions EXCEPT ![req[r].sessionId].messages =
                         @ \o Conversation(req[r].message, <<>>, now, now)],
                    documents, now, ingested, served, Append(pushed, Push(req[r])))

\* model.generateContent rejects
MemGenerateFail(r) ==
    /\ variant = "memory"
    /\ req[r].pc = "generate"
    /\ \E e \in RemoteErrors :
         SetMem(r, [req[r] EXCEPT !.pc = "done", !.error = e,
                                  !.res = MemChatFailureResponse(req[r], e)],
                sessions, documents, now, ingested, served)

\* router.get('/session/:sessionId')
MemSession(r) ==
    /\ variant = "memory"
    /\ CanSubmit(r)
    /\ \E s \in SessionIds :
         LET srv == [served EXCEPT !.requests = @ + 1]
             q == [IdleReq EXCEPT !.kind = "session", !.n = srv.requests, !.sessionId = s]
         IN SetMem(r, [q EXCEPT !.pc = "done",
                                !.res = SessionResponse(s, Len(MemSessionDocs(documents, s)),
                                                        "memory")],
                   sessions, documents, now, ingested, srv)

Next ==
    \E r \in Req :
        \/ Collect(r)
        \/ NoneDone /\ UploadStart(r)
        \/ NoneDone /\ UploadFile(r)
        \/ NoneDone /\ ExtractReturn(r)
        \/ NoneDone /\ ExtractFail(r)
        \/ NoneDone /\ EmbedReturn(r)
        \/ NoneDone /\ EmbedFail(r)
        \/ NoneDone /\ UpsertReturn(r)
        \/ NoneDone /\ UpsertFail(r)
        \/ NoneDone /\ ChatStart(r)
        \/ NoneDone /\ HealthReturn(r)
        \/ NoneDone /\ QueryEmbedReturn(r)
        \/ NoneDone /\ QueryEmbedFail(r)
        \/ NoneDone /\ QueryReturn(r)
        \/ NoneDone /\ QueryFail(r)
        \/ NoneDone /\ GenerateReturn(r)
        \/ NoneDone /\ GenerateFail(r)
        \/ NoneDone /\ SessionStart(r)
        \/ NoneDone /\ ListReturn(r)
        \/ NoneDone /\ ListFail(r)
        \/ NoneDone /\ MemUploadFile(r)
        \/ NoneDone /\ MemExtractReturn(r)
        \/ NoneDone /\ MemExtractFail(r)
        \/ NoneDone /\ MemChatStart(r)
        \/ NoneDone /\ MemGenerateReturn(r)
        \/ NoneDone /\ MemGenerateFail(r)
        \/ NoneDone /\ MemSession(r)

Spec == Init /\ [][Next]_vars

(***************************************************************************)
(* The chat handlers over stores that earlier uploads have filled: one      *)
(* document of session SB stored first, then up to MaxStock documents of    *)
(* session SA, each ingested in a millisecond of its own.                   *)
(***************************************************************************)
\* processAndStoreFile's locals when it stores the i-th uploaded file; the
\* first file belongs to session SB, the others to SA
StockTask(i) ==
    LET file == File(IF i % 2 = 1 THEN NA ELSE NB, "text/plain",
                     IF i % 2 = 1 THEN BufKiln ELSE BufMemo)
        s == IF i = 1 THEN SB ELSE SA
    IN [IdleReq EXCEPT !.kind = "upload", !.sessionId = s, !.files = <<file>>, !.i = 1,
                       !.extractedText = toStringUtf8(file.buffer),
                       !.documentId = documentId(s, i, file.originalname)]

\* the vector storeDocument builds for the i-th file, in millisecond i
StockVector(i) ==
    LET q == StockTask(i)
    IN Vector(q.sessionId, q.documentId, q.extractedText, CallerMetadata(q.files[1]), i)

\* the index after the files 2..j+1 went to the vector store
StockIndex(j) ==
    [id \in { StockVector(i).id : i \in 2..(j + 1) } |->
        StockVector(CHOOSE i \in 2..(j + 1) : StockVector(i).id = id).metadata]

\* fallbackDocuments after the first file and the files j+2..k+1 fell back
StockFallback(j, k) ==
    LET entry(i) == [key |-> docKey(StockTask(i).sessionId, StockTask(i).documentId),
                     val |-> FallbackDocument(StockTask(i), StockTask(i).files[1], i)]
    IN <<entry(1)>> \o [m \in 1..(k - j) |-> entry(j + 1 + m)]

\* documents of the in-memory variant after the files 1..k+1
StockDocuments(k) ==
    [i \in 1..(k + 1) |->
        [key |-> StockTask(i).documentId,
         val |-> MemDocument(StockTask(i), StockTask(i).files[1], i)]]

\* the ingestions behind the stocked stores
StockIngested(j, k, v) ==
    [i \in 1..(k + 1) |->
        Ingestion(1, StockTask(i),
                  IF v = "memory" THEN "memory"
                  ELSE IF i \in 2..(j + 1) THEN "pinecone" ELSE "fallback")]

\* the state after k+1 files were uploaded one by one, j of them into the index
InitStocked ==
    /\ variant \in {"pinecone", "memory"}
    /\ apiKey \in IF variant = "pinecone" THEN BOOLEAN ELSE {FALSE}
    /\ initialized = apiKey
    /\ \E k \in 0..MaxStock :
         \E j \in IF apiKey THEN 0..k ELSE {0} :
            /\ index = IF variant = "pinecone" THEN StockIndex(j) ELSE EmptyIndex
            /\ fallbackDocuments = IF variant = "pinecone" THEN StockFallback(j, k) ELSE <<>>
            /\ documents = IF variant = "memory" THEN StockDocuments(k) ELSE <<>>
            /\ ingested = StockIngested(j, k, variant)
            /\ now = k + 1
    /\ fallbackSessions = [s \in {} |-> NoSessionObject]
    /\ sessions = [s \in {} |-> NoSessionObject]
    /\ req = [r \in Req |-> IdleReq]
    /\ pushed = <<>>
    /\ served = [requests |-> 0, files |-> 0]

NextChat ==
    \E r \in Req :
        \/ Collect(r)
        \/ NoneDone /\ ChatStart(r)
        \/ NoneDone /\ HealthReturn(r)
        \/ NoneDone /\ QueryEmbedReturn(r)
        \/ NoneDone /\ QueryEmbedFail(r)
        \/ NoneDone /\ QueryReturn(r)
        \/ NoneDone /\ QueryFail(r)
        \/ NoneDone /\ GenerateReturn(r)
        \/ NoneDone /\ GenerateFail(r)
        \/ NoneDone /\ MemChatStart(r)
        \/ NoneDone /\ MemGenerateReturn(r)
        \/ NoneDone /\ MemGenerateFail(r)

SpecStocked == InitStocked /\ [][NextChat]_vars

\* every pending remote call settles and the event loop runs the callback that
\* waits for it: a handler that can take a step eventually takes one
SpecStockedFair == SpecStocked /\ WF_vars(NextChat)

(***************************************************************************)
(* The upload and chat handlers side by side, after one file of session SB  *)
(* was uploaded and fell back.                                              *)
(***************************************************************************)
InitServing ==
    /\ variant \in {"pinecone", "memory"}
    /\ apiKey \in IF variant = "pinecone" THEN BOOLEAN ELSE {FALSE}
    /\ initialized = apiKey
    /\ index = EmptyIndex
    /\ fallbackDocuments = IF variant = "pinecone" THEN StockFallback(0, 0) ELSE <<>>
    /\ documents = IF variant = "memory" THEN StockDocuments(0) ELSE <<>>
    /\ ingested = StockIngested(0, 0, variant)
    /\ now = 1
    /\ fallbackSessions = [s \in {} |-> NoSessionObject]
    /\ sessions = [s \in {} |-> NoSessionObject]
    /\ req = [r \in Req |-> IdleReq]
    /\ pushed = <<>>
    /\ served = [requests |-> 0, files |-> 1]

NextServe ==
    \E r \in Req :
        \/ Collect(r)
        \/ NoneDone /\ UploadStart(r)
        \/ NoneDone /\ UploadFile(r)
        \/ NoneDone /\ ExtractReturn(r)
        \/ NoneDone /\ ExtractFail(r)
        \/ NoneDone /\ EmbedReturn(r)
        \/ NoneDone /\ EmbedFail(r)
        \/ NoneDone /\ UpsertReturn(r)
        \/ NoneDone /\ UpsertFail(r)
        \/ NoneDone /\ MemUploadFile(r)
        \/ NoneDone /\ MemExtractReturn(r)
        \/ NoneDone /\ MemExtractFail(r)
        \/ NoneDone /\ ChatStart(r)
        \/ NoneDone /\ HealthReturn(r)
        \/ NoneDone /\ QueryEmbedReturn(r)
        \/ NoneDone /\ QueryEmbedFail(r)
        \/ NoneDone /\ QueryReturn(r)
        \/ NoneDone /\ QueryFail(r)
        \/ NoneDone /\ GenerateReturn(r)
        \/ NoneDone /\ GenerateFail(r)
        \/ NoneDone /\ MemChatStart(r)
        \/ NoneDone /\ MemGenerateReturn(r)
        \/ NoneDone /\ MemGenerateFail(r)

\* every pending remote call settles and the event loop runs the callback
\* that waits for it
SpecServingFair == InitServing /\ [][NextServe]_vars /\ WF_vars(NextServe)

(***************************************************************************)
(* PineconeClient.storeDocument called with arguments of the caller's      *)
(* choice: any session id and document id, and a metadata object that may   *)
(* be absent (the default {}), the one processAndStoreFile builds, or one   *)
(* that has keys of its own named sessionId or content.                     *)
(***************************************************************************)
StoreDocumentIds == { documentId(SA, 1, NA), documentId(SB, 1, NA) }

MetadataObjects ==
    { [k \in {} |-> <<>>],
      CallerMetadata(File(NA, "text/plain", BufKiln)),
      [filename |-> NA, sessionId |-> SB],
      [filename |-> NA, content |-> M1] }

StoreArgs ==
    [sessionId : SessionIds, documentId : StoreDocumentIds, content : {TextDoc},
     metadata : MetadataObjects]

InitStore ==
    /\ variant = "pinecone"
    /\ apiKey \in BOOLEAN
    /\ initialized = FALSE
    /\ index = EmptyIndex
    /\ fallbackSessions = [s \in {} |-> NoSessionObject]
    /\ fallbackDocuments = <<>>
    /\ sessions = [s \in {} |-> NoSessionObject]
    /\ documents = <<>>
    /\ now = 1
    /\ req = [r \in Req |-> IdleReq]
    /\ ingested = <<>>
    /\ pushed = <<>>
    /\ served = [requests |-> 0, files |-> 0]

\* storeDocument is called: initialize() when the client is not initialized,
\* a failure returned when that fails, the embedding requested otherwise
StoreDocumentCall(r) ==
    /\ req[r].pc = "idle"
    /\ \E a \in StoreArgs :
         LET q == [IdleReq EXCEPT !.kind = "store", !.args = a]
         IN IF ~initialized /\ ~initialize.success
            THEN Set(r, [q EXCEPT !.pc = "done",
                                  !.pineconeResult = Failed(initialize.error)],
                     FALSE, index, fallbackDocuments, now, ingested)
            ELSE Set(r, [q EXCEPT !.pc = "embed"],
                     TRUE, index, fallbackDocuments, now, ingested)

\* generateEmbedding returns: the vector is built and handed to index.upsert
StoreEmbedReturn(r) ==
    /\ req[r].kind = "store"
    /\ req[r].pc = "embed"
    /\ LET a == req[r].args
       IN Set(r, [req[r] EXCEPT !.pc = "upsert",
                                !.vector = Vector(a.sessionId, a.documentId, a.content,
                                                  a.metadata, now)],
              initialized, index, fallbackDocuments, now, ingested)

\* generateEmbedding or index.upsert rejects: the catch returns a failure
StoreReject(r) ==
    /\ req[r].kind = "store"
    /\ req[r].pc \in {"embed", "upsert"}
    /\ \E e \in StoreErrors :
         Set(r, [req[r] EXCEPT !.pc = "done", !.pineconeResult = Failed(e.message)],
             initialized, index, fallbackDocuments, now, ingested)

\* index.upsert resolves: the record is written and success returned
StoreUpsertReturn(r) ==
    /\ req[r].kind = "store"
    /\ req[r].pc = "upsert"
    /\ Set(r, [req[r] EXCEPT !.pc = "done", !.pineconeResult = Defined(TRUE)],
           initialized, upsert(index, req[r].vector), fallbackDocuments, now, ingested)

NextStore ==
    \E r \in Req :
        \/ Collect(r)
        \/ NoneDone /\ StoreDocumentCall(r)
        \/ NoneDone /\ StoreEmbedReturn(r)
        \/ NoneDone /\ StoreReject(r)
        \/ NoneDone /\ StoreUpsertReturn(r)

SpecStore == InitStore /\ [][NextStore]_vars

(***************************************************************************)
(* Properties                                                              *)
(***************************************************************************)
Last(seq) == seq[Len(seq)]

\* a text with no character that is not white space (the empty text included)
OnlyWhiteSpace(t) == \A k \in 1..Len(t) : t[k].c \in WhiteSpace

\* a rejection that reports quota exhaustion: status 429, or 'quota' in the message
QuotaRelated(e) ==
    \/ e.status = 429
    \/ e.hasMessage /\ \E k \in 1..Len(e.message) :
                          k + 4 <= Len(e.message) /\ SubSeq(e.message, k, k + 4) = <<"q", "u", "o", "t", "a">>

Processed(q) == Len(q.results) + Len(q.errors)

\* this step ends the ingestion of one file of request r
FileDone(r) ==
    /\ req[r].kind = "upload"
    /\ req'[r].kind = "upload"
    /\ Processed(req'[r]) = Processed(req[r]) + 1

\* the chat of task r has got the answer of searchDocuments, a success
Searched(r) ==
    /\ variant = "pinecone"
    /\ req[r].kind = "chat"
    /\ req[r].pineconeSearchResult.defined
    /\ req[r].pineconeSearchResult.success

\* C1: every document searchDocuments(S, query) returns is tagged with S and is
\* the document of an ingestion into S
C1_SearchIsolation ==
    \A r \in Req :
        Searched(r) =>
            \A k \in 1..Len(req[r].pineconeSearchResult.documents) :
                LET doc == req[r].pineconeSearchResult.documents[k]
                IN /\ doc.metadata.sessionId = req[r].sessionId
                   /\ \E g \in 1..Len(ingested) :
                        /\ ingested[g].documentId = doc.id
                        /\ ingested[g].sessionId = req[r].sessionId
                        /\ ingested[g].storage = "pinecone"
                        /\ doc.content = substring(ingested[g].content, 40000)

\* a search for S answered while the index holds a record of another session
C1_Witness ==
    \E r \in Req :
        /\ Searched(r)
        /\ \E id \in DOMAIN index : index[id].sessionId # req[r].sessionId

\* the document of ingestion g is held by the vector store / the fallback store
InVectorStore(g) ==
    /\ g.documentId \in DOMAIN index
    /\ index[g.documentId].sessionId = g.sessionId
    /\ index[g.documentId].content = substring(g.content, 40000)

InFallbackStore(g) ==
    \E k \in 1..Len(fallbackDocuments) :
        /\ fallbackDocuments[k].val.id = g.documentId
        /\ fallbackDocuments[k].val.sessionId = g.sessionId
        /\ fallbackDocuments[k].val.content = g.content

\* C2: every document an ingestion created is held by exactly one of the vector
\* store and the fallback store
C2_ExactlyOneStore ==
    variant = "pinecone" =>
        \A g \in 1..Len(ingested) :
            InVectorStore(ingested[g]) # InFallbackStore(ingested[g])

\* the ingestions into session s that went to the fallback store
FallbackIngestions(s) ==
    { g \in 1..Len(ingested) :
        ingested[g].sessionId = s /\ ingested[g].storage = "fallback" }

\* C3: with the vector store failing, an upload ends in success and each document
\* it put into the fallback store is counted by GET /session/S on the fallback path
C3_FallbackCounted ==
    \A r \in Req :
        /\ ( req[r].kind = "upload" /\ req[r].pc = "done" /\ req[r].files # <<>>
             /\ req[r].sessionId # <<>> )
           => req[r].res.status = 200 /\ req[r].res.success
        /\ ( req[r].kind = "session" /\ req[r].pc = "done"
             /\ req[r].res.storage = "fallback" )
           => req[r].res.documentCount >= Cardinality(FallbackIngestions(req[r].sessionId))

\* C4: a file whose extracted text is not blank gets a success result; its tier is
\* 'pinecone' exactly when storeDocument reported success, and otherwise
\* 'fallback', with the full text written to the fallback store
C4_StoreFailureFallsBack ==
    [][ \A r \in Req :
          ( variant = "pinecone" /\ FileDone(r)
            /\ ~OnlyWhiteSpace(req'[r].extractedText) )
          => LET q == req'[r]
                 key == q.sessionId \o <<"_">> \o q.documentId
             IN /\ q.results # req[r].results
                /\ q.errors = req[r].errors
                /\ Last(q.results).success
                /\ Last(q.results).documentId = q.documentId
                /\ q.pineconeResult.defined
                /\ Last(q.results).storage = "pinecone" <=> q.pineconeResult.success
                /\ Last(q.results).storage = "fallback" <=> ~q.pineconeResult.success
                /\ q.pineconeResult.success =>
                     /\ fallbackDocuments' = fallbackDocuments
                     /\ q.documentId \in DOMAIN index'
                /\ ~q.pineconeResult.success =>
                     /\ index' = index
                     /\ \E k \in 1..Len(fallbackDocuments') :
                          /\ fallbackDocuments'[k].key = key
                          /\ fallbackDocuments'[k].val.content = q.extractedText
                          /\ fallbackDocuments'[k].val.sessionId = q.sessionId
      ]_vars

\* a batch whose first file went to the vector store and whose second file fell
\* back after storeDocument failed
C4_Witness ==
    \E r \in Req :
        /\ variant = "pinecone"
        /\ req[r].kind = "upload"
        /\ Len(req[r].results) = 2
        /\ req[r].results[1].storage = "pinecone"
        /\ req[r].results[2].storage = "fallback"
        /\ req[r].pineconeResult.defined
        /\ ~req[r].pineconeResult.success
        /\ fallbackDocuments # <<>>

\* C5: a file whose extraction yields empty or white-space-only text is recorded
\* as an error; storeDocument is not called and no store changes
C5_BlankRejected ==
    [][ \A r \in Req :
          ( FileDone(r) /\ OnlyWhiteSpace(req'[r].extractedText) )
          => /\ req'[r].results = req[r].results
             /\ Len(req'[r].errors) = Len(req[r].errors) + 1
             /\ Last(req'[r].errors).filename = req[r].files[req[r].i].originalname
             /\ req'[r].pineconeResult = req[r].pineconeResult
             /\ initialized' = initialized
             /\ index' = index
             /\ fallbackDocuments' = fallbackDocuments
             /\ documents' = documents
             /\ ingested' = ingested
      ]_vars

\* an extraction that returned white space only was turned into an error
C5_Witness ==
    \E r \in Req :
        /\ req[r].kind = "upload"
        /\ req[r].extractedText = TextBlank
        /\ req[r].errors # <<>>
        /\ Last(req[r].errors).error = <<"No text could be extracted from the document">>

\* C6: every document in the vector store, the fallback store and the in-memory
\* documents map has non-empty content
C6_ContentNonEmpty ==
    /\ \A id \in DOMAIN index : index[id].content # <<>> /\ length(index[id].content) > 0
    /\ \A k \in 1..Len(fallbackDocuments) :
         /\ fallbackDocuments[k].val.content # <<>>
         /\ length(fallbackDocuments[k].val.content) > 0
    /\ \A k \in 1..Len(documents) :
         /\ documents[k].val.content # <<>>
         /\ length(documents[k].val.content) > 0

\* both stores hold a document, the second one extracted by the generative model
C6_Witness ==
    /\ DOMAIN index # {}
    /\ \E k \in 1..Len(fallbackDocuments) : fallbackDocuments[k].val.content = TextDoc

\* C7: any two distinct successful file ingestions have distinct document ids
C7_DistinctIds ==
    \A g, h \in 1..Len(ingested) :
        g # h => ingested[g].documentId # ingested[h].documentId

\* C8: a stored document is never updated in place and never deleted: every step
\* leaves each stored document under its id with its content and metadata
C8_NeverUpdated ==
    [][ /\ \A id \in DOMAIN index : id \in DOMAIN index' /\ index'[id] = index[id]
        /\ \A k \in 1..Len(fallbackDocuments) :
             k <= Len(fallbackDocuments') /\ fallbackDocuments'[k] = fallbackDocuments[k]
        /\ \A k \in 1..Len(documents) :
             k <= Len(documents') /\ documents'[k] = documents[k]
      ]_vars

\* the generative model's call of chat task r was rejected and the response is sent
ChatRejected(r) ==
    /\ req[r].kind = "chat"
    /\ req[r].pc = "done"
    /\ req[r].error # NoError

\* C9: a chat whose generative call fails with a quota error answers 200 with
\* success, a canned response and the warning
C9_QuotaDegrades ==
    \A r \in Req :
        ( ChatRejected(r) /\ QuotaRelated(req[r].error) )
        => /\ req[r].res.status = 200
           /\ req[r].res.success
           /\ req[r].res.response = "canned"
           /\ req[r].res.warning

\* a chat rejected with 'quota' in the message and a status other than 429
C9_Witness ==
    \E r \in Req :
        /\ ChatRejected(r)
        /\ req[r].error = ErrQuotaMsg
        /\ req[r].res.status = 200

\* C10: a chat whose generative call fails with an error that is not
\* quota-related answers 500 with error and details
C10_OtherErrorFails ==
    \A r \in Req :
        ( ChatRejected(r) /\ ~QuotaRelated(req[r].error) )
        => /\ req[r].res.status = 500
           /\ DOMAIN req[r].res = {"status", "error", "details"}

\* a chat rejected with status 500 and a message that has no 'quota' in it
C10_Witness ==
    \E r \in Req :
        /\ ChatRejected(r)
        /\ req[r].error = ErrOther
        /\ req[r].res.status = 500

\* an upload that passed validation
ValidUpload(r) ==
    /\ req[r].kind = "upload"
    /\ req[r].sessionId # <<>>
    /\ req[r].files # <<>>

RECURSIVE NamesAt(_, _, _)
\* the names of the files at the positions R, from position k on, in batch order
NamesAt(fs, R, k) ==
    IF k > Len(fs) THEN <<>>
    ELSE (IF k \in R THEN <<fs[k].originalname>> ELSE <<>>) \o NamesAt(fs, R, k + 1)

\* the filenames a list of results or errors carries
FilenamesOf(items) == [k \in 1..Len(items) |-> items[k].filename]

\* C11: every file of a batch is processed whatever happened to the files before
\* it, and the response lists each file exactly once, in results or in errors
C11_EveryFileListedOnce ==
    \A r \in Req :
        ValidUpload(r) =>
            /\ req[r].pc # "done" => Processed(req[r]) = req[r].i - 1
            /\ req[r].pc = "done" =>
                 /\ req[r].res.status = 200
                 /\ req[r].res.success
                 /\ Len(req[r].res.results) + Len(req[r].res.errors) = Len(req[r].files)
                 /\ \E R \in SUBSET (1..Len(req[r].files)) :
                      /\ FilenamesOf(req[r].res.results) = NamesAt(req[r].files, R, 1)
                      /\ FilenamesOf(req[r].res.errors) =
                           NamesAt(req[r].files, (1..Len(req[r].files)) \ R, 1)

\* a batch whose first file failed and whose second file was stored all the same
C11_Witness ==
    \E r \in Req :
        /\ ValidUpload(r)
        /\ req[r].pc = "done"
        /\ Len(req[r].files) = 2
        /\ req[r].files[1].mimetype # "text/plain"
        /\ Len(req[r].res.errors) = 1
        /\ req[r].res.errors[1].filename = req[r].files[1].originalname
        /\ Len(req[r].res.results) = 1
        /\ req[r].res.results[1].filename = req[r].files[2].originalname

\* C12: the pushes into the retained message sequence of one session run in the
\* order in which their chat requests were submitted
C12_SubmissionOrder ==
    \A i, j \in 1..Len(pushed) :
        ( /\ i < j
          /\ pushed[i].sessionId = pushed[j].sessionId
          /\ pushed[i].ref # "transient"
          /\ pushed[j].ref # "transient" )
        => pushed[i].req < pushed[j].req

\* a chat that passed validation
ValidChat(r) ==
    /\ req[r].kind = "chat"
    /\ req[r].sessionId # <<>>
    /\ req[r].message # <<>>

\* C13: once an upload has been answered or a chat has resolved its session, the
\* session map holds a record for the session identifier they used (in the
\* Pinecone variant: when the chat resolved its session in fallback mode)
C13_SessionCreatedOnFirstUse ==
    \A r \in Req :
        /\ ( variant = "memory" /\ ValidUpload(r) /\ req[r].pc = "done" )
           => req[r].sessionId \in DOMAIN sessions
        /\ ( variant = "memory" /\ ValidChat(r) )
           => req[r].sessionId \in DOMAIN sessions
        /\ ( variant = "pinecone" /\ ValidChat(r) /\ req[r].session.ref = "fallback" )
           => req[r].sessionId \in DOMAIN fallbackSessions

\* this step is taken by the chat task r
ChatStep(r) ==
    /\ req'[r] # req[r]
    /\ req[r].kind = "chat" \/ req'[r].kind = "chat"

\* C14: a chat whose session was resolved in vector-store mode leaves the
\* fallback session map as it is in every step it takes; a chat that resolves
\* its session in fallback mode creates the entry if absent, keeps an entry
\* already there, and no step removes an entry
C14_TransientOrRetained ==
    [][ \A r \in Req :
          ChatStep(r) =>
            LET s == req'[r].sessionId
            IN /\ ( req[r].session.ref = "transient" \/ req'[r].session.ref = "transient" )
                  => fallbackSessions' = fallbackSessions
               /\ ( req[r].session.ref = "none" /\ req'[r].session.ref = "fallback" )
                  => /\ s \in DOMAIN fallbackSessions'
                     /\ fallbackSessions'[s].id = s
                     /\ s \in DOMAIN fallbackSessions => fallbackSessions'[s] = fallbackSessions[s]
                     /\ \A s2 \in DOMAIN fallbackSessions : s2 \in DOMAIN fallbackSessions'
               /\ req'[r].session.ref = "fallback" => s \in DOMAIN fallbackSessions'
               /\ DOMAIN fallbackSessions \subseteq DOMAIN fallbackSessions'
      ]_vars

\* a chat answered in vector-store mode for a session the fallback map does not
\* hold, while the map retains the session of an earlier chat in fallback mode
C14_Witness ==
    \E r \in Req :
        /\ ValidChat(r)
        /\ req[r].pc = "done"
        /\ req[r].session.ref = "transient"
        /\ req[r].session.messages # <<>>
        /\ req[r].sessionId \notin DOMAIN fallbackSessions
        /\ DOMAIN fallbackSessions # {}

\* the chat task r has retrieved its documents
Retrieved(r) ==
    /\ ValidChat(r)
    /\ req[r].pc \in {"generate", "done"}

\* the positions in fallbackDocuments of the documents of session s
FallbackPositions(s) ==
    { k \in 1..Len(fallbackDocuments) : fallbackDocuments[k].val.sessionId = s }

\* the m-th of them in storage order
NthFallback(s, m) ==
    CHOOSE k \in FallbackPositions(s) :
        Cardinality({ x \in FallbackPositions(s) : x < k }) = m - 1

\* C15: a chat uses the search result when the search succeeded with at least
\* one document, and otherwise the first documents of the session in the
\* fallback store, in storage order and at most 3; documentsFound is at most 3
C15_RetrievalAtMostThree ==
    \A r \in Req :
        Retrieved(r) =>
            LET q == req[r]
                sr == q.pineconeSearchResult
                count == Cardinality(FallbackPositions(q.sessionId))
                n == IF count < 3 THEN count ELSE 3
            IN /\ ( variant = "pinecone" /\ sr.success /\ Len(sr.documents) >= 1 )
                  => q.relevantDocs = sr.documents
               /\ ( variant = "pinecone" /\ ~(sr.success /\ Len(sr.documents) >= 1) )
                  => /\ Len(q.relevantDocs) = n
                     /\ \A m \in 1..n :
                          q.relevantDocs[m] = fallbackDocuments[NthFallback(q.sessionId, m)].val
               /\ Len(q.relevantDocs) <= 3
               /\ ( q.pc = "done" /\ q.res.status = 200 )
                  => q.res.documentsFound = Len(q.relevantDocs) /\ q.res.documentsFound <= 3

\* the chat task r of the Pinecone variant has been answered with status 200
ChatAnswered(r) ==
    /\ variant = "pinecone"
    /\ ValidChat(r)
    /\ req[r].pc = "done"
    /\ req[r].res.status = 200

\* C16: when a chat response counts documents, its storage field names the
\* store they came from: 'pinecone' only for the documents of the search
\* result, 'fallback' only for documents of the fallback store
C16_TierServedDocuments ==
    \A r \in Req :
        ( ChatAnswered(r) /\ req[r].res.documentsFound > 0 )
        => /\ req[r].res.storage = "pinecone"
              => /\ req[r].pineconeSearchResult.success
                 /\ req[r].relevantDocs = req[r].pineconeSearchResult.documents
           /\ req[r].res.storage = "fallback"
              => /\ req[r].pineconeSearchResult.documents = <<>>
                 /\ \A m \in 1..Len(req[r].relevantDocs) :
                      \E k \in 1..Len(fallbackDocuments) :
                          fallbackDocuments[k].val.id = req[r].relevantDocs[m].id

\* C17: the prompt of a chat that retrieved no document has no 'Document:'
\* section; the prompt of a chat that retrieved documents has one section per
\* document, in order, headed by the document's filename
C17_PromptGrounding ==
    \A r \in Req :
        Retrieved(r) =>
            LET docs == req[r].relevantDocs
                prompt == req[r].prompt
            IN /\ prompt.question = req[r].message
               /\ Len(docs) = 0 => ~prompt.grounded /\ prompt.sections = <<>>
               /\ Len(docs) >= 1 =>
                    /\ prompt.grounded
                    /\ Len(prompt.sections) = Len(docs)
                    /\ \A m \in 1..Len(docs) :
                         /\ docs[m].metadata.filename # <<>>
                         /\ prompt.sections[m].filename = docs[m].metadata.filename

\* one chat that found no document and another that found one, both prompted
C17_Witness ==
    \E r1, r2 \in Req :
        /\ Retrieved(r1) /\ req[r1].relevantDocs = <<>> /\ ~req[r1].prompt.grounded
        /\ Retrieved(r2) /\ Len(req[r2].relevantDocs) >= 1 /\ req[r2].prompt.grounded

\* a result of the adapter: success, or a failure that carries an error
UniformResult(result) ==
    /\ result.defined
    /\ result.success \/ ("error" \in DOMAIN result /\ result.error # <<>>)

\* the error of a file is one that extraction raised
ExtractionFailure(item) ==
    \/ item.error = <<"No text could be extracted from the document">>
    \/ item.error[1] = "Failed to extract text from "

\* C18: every call of healthCheck, storeDocument, searchDocuments and
\* getSessionDocuments hands its caller a result, a failure with an error when
\* initialization, the embedding or the remote index failed; none of their
\* failures reaches a handler as an exception
C18_AdapterNeverThrows ==
    variant = "pinecone" =>
        \A r \in Req :
            /\ ValidUpload(r) =>
                 /\ req[r].pineconeResult.defined => UniformResult(req[r].pineconeResult)
                 /\ Len(req[r].results) >= 1 => req[r].pineconeResult.defined
                 /\ \A m \in 1..Len(req[r].errors) : ExtractionFailure(req[r].errors[m])
            /\ Retrieved(r) =>
                 /\ UniformResult(req[r].healthCheck)
                 /\ UniformResult(req[r].pineconeSearchResult)
                 /\ ~req[r].pineconeSearchResult.success
                    => req[r].pineconeSearchResult.documents = <<>>
                 /\ ( req[r].pc = "done" /\ req[r].res.status = 500 ) => req[r].error # NoError
            /\ ( req[r].kind = "session" /\ req[r].pc = "done" ) =>
                 /\ UniformResult(req[r].pineconeResult)
                 /\ req[r].res.status = 200

\* a file stored after storeDocument failed remotely, next to a chat whose
\* search failed remotely
C18_Witness ==
    \E r1, r2 \in Req :
        /\ variant = "pinecone"
        /\ ValidUpload(r1)
        /\ Len(req[r1].results) >= 1
        /\ ~req[r1].pineconeResult.success
        /\ req[r1].pineconeResult.error = ErrQuotaMsg.message
        /\ Retrieved(r2)
        /\ req[r2].healthCheck.success
        /\ ~req[r2].pineconeSearchResult.success
        /\ req[r2].pineconeSearchResult.error = ErrQuotaMsg.message

\* the task r has called an operation of the adapter
CalledAdapter(r) ==
    \/ req[r].kind = "session"
    \/ ValidChat(r)
    \/ ValidUpload(r) /\ (req[r].pc \in {"embed", "upsert"} \/ req[r].pineconeResult.defined)

\* the results of the adapter the task r holds
AdapterResults(r) ==
    { res \in {req[r].pineconeResult, req[r].healthCheck, req[r].pineconeSearchResult} :
        res.defined }

\* every operation called while the client was not initialized has run
\* initialize: with a key the client is initialized from the first call on,
\* without one each call fails with the error initialize reports
InitializedOnUse ==
    variant = "pinecone" =>
        \A r \in Req :
            CalledAdapter(r) =>
                /\ apiKey => initialized
                /\ ~apiKey =>
                     /\ ~initialized
                     /\ \A res \in AdapterResults(r) :
                          /\ ~res.success
                          /\ res.error = <<"Pinecone API key not provided">>

\* C19: a call of healthCheck, storeDocument, searchDocuments or
\* getSessionDocuments made while the client is not initialized runs initialize
\* again, and once initialized the client stays initialized
C19_InitializeRetried ==
    [][ InitializedOnUse' /\ (initialized => initialized') ]_vars

\* two calls made one after the other without a key: each ran initialize and
\* failed with its error
C19_Witness ==
    \E r1, r2 \in Req :
        /\ ~apiKey
        /\ ValidUpload(r1)
        /\ req[r1].pineconeResult.defined
        /\ req[r1].pineconeResult.error = <<"Pinecone API key not provided">>
        /\ Retrieved(r2)
        /\ req[r2].pineconeSearchResult.error = <<"Pinecone API key not provided">>

\* how far a chat handler has got: resolving its session (1), retrieving (2),
\* prompt built and generating (4), response sent (5)
Stage(pc) ==
    CASE pc = "idle" -> 0
      [] pc = "health" -> 1
      [] pc \in {"qembed", "query"} -> 2
      [] pc = "generate" -> 4
      [] pc = "done" -> 5

Succeeded(q) == q.res.status = 200 /\ ~q.res.warning /\ q.error = NoError
Degraded(q) == q.res.status = 200 /\ q.res.warning /\ q.error # NoError
Failed500(q) == q.res.status = 500 /\ q.error # NoError

\* C20: a chat past validation resolves its session, retrieves, builds the
\* prompt and generates, in that order, each once; it answers only after
\* generating, with exactly one of success, the degraded quota response and
\* the failure, and does nothing after its response; every such chat reaches
\* its response
C20_ChatStages ==
  /\ \A r \in Req : ValidChat(r) ~> ( ValidChat(r) /\ req[r].pc = "done" )
  /\
    [][ \A r \in Req :
          ChatStep(r) =>
            LET a == req[r]
                b == req'[r]
            IN /\ ( a.kind = "chat" /\ a.pc = "done" ) => b = IdleReq
               /\ ( b.kind = "chat" /\ b.sessionId # <<>> /\ b.message # <<>> ) =>
                    /\ Stage(a.pc) < Stage(b.pc) \/ (a.pc = "qembed" /\ b.pc = "query")
                    /\ b.pc = "done" <=> a.pc = "generate"
                    /\ Stage(b.pc) >= 2 => b.session.ref # "none"
                    /\ ( Stage(b.pc) >= 2 /\ variant = "pinecone" ) => b.healthCheck.defined
                    /\ Stage(b.pc) < 4 => b.prompt = NoPrompt /\ ~b.pineconeSearchResult.defined
                    /\ Stage(b.pc) >= 4 =>
                         /\ variant = "pinecone" => b.pineconeSearchResult.defined
                         /\ b.prompt.question = b.message
                         /\ b.prompt.grounded <=> Len(b.relevantDocs) > 0
                    /\ b.pc # "done" => b.res = NoRes /\ b.error = NoError
                    /\ b.pc = "done" =>
                         /\ Succeeded(b) \/ Degraded(b) \/ Failed500(b)
                         /\ ~(Succeeded(b) /\ Degraded(b))
                         /\ ~(Succeeded(b) /\ Failed500(b))
                         /\ ~(Degraded(b) /\ Failed500(b))
      ]_vars

\* a chat answered after a healthy session resolution, a search that found a
\* document and a generation that succeeded
C20_Witness ==
    \E r \in Req :
        /\ ValidChat(r)
        /\ req[r].pc = "done"
        /\ req[r].healthCheck.success
        /\ req[r].pineconeSearchResult.success
        /\ Len(req[r].relevantDocs) >= 1
        /\ Succeeded(req[r])

\* C21: a chat call invokes the health check, the vector search and the
\* generative model at most once each, whatever its outcome; the Pinecone
\* variant's chat that has been answered past validation invoked each once
C21_NoRetries ==
    \A r \in Req :
        req[r].kind = "chat" =>
            /\ req[r].calls.health <= 1
            /\ req[r].calls.search <= 1
            /\ req[r].calls.generate <= 1
            /\ ( ValidChat(r) /\ req[r].pc = "done" ) =>
                 req[r].calls = IF variant = "pinecone"
                                THEN [health |-> 1, search |-> 1, generate |-> 1]
                                ELSE [health |-> 0, search |-> 0, generate |-> 1]

\* a chat that degraded on a quota error after one call of each kind
C21_Witness ==
    \E r \in Req :
        /\ ValidChat(r)
        /\ req[r].pc = "done"
        /\ req[r].res.status = 200
        /\ req[r].res.warning
        /\ req[r].calls = [health |-> 1, search |-> 1, generate |-> 1]

\* C22: a chat request without sessionId or message and an upload request
\* without sessionId or without files are answered 400 by the first step of
\* their handler: no adapter or model call is made, the vector store client
\* is not initialized and no store changes
C22_ValidationFirst ==
    [][ \A r \in Req :
          LET b == req'[r]
          IN ( b # req[r]
               /\ \/ b.kind = "chat" /\ ( b.sessionId = <<>> \/ b.message = <<>> )
                  \/ b.kind = "upload" /\ ( b.sessionId = <<>> \/ b.files = <<>> ) )
             => /\ req[r] = IdleReq
                /\ b.pc = "done"
                /\ b.res.status = 400
                /\ DOMAIN b.res = {"status", "error"}
                /\ b.calls = NoCalls
                /\ b.i = 0
                /\ initialized' = initialized
                /\ index' = index
                /\ fallbackSessions' = fallbackSessions
                /\ fallbackDocuments' = fallbackDocuments
                /\ sessions' = sessions
                /\ documents' = documents
                /\ ingested' = ingested
                /\ pushed' = pushed
      ]_vars

\* an upload without files rejected after an earlier upload has stored a document
C22_Witness ==
    \E r \in Req :
        /\ req[r].kind = "upload"
        /\ req[r].sessionId # <<>>
        /\ req[r].files = <<>>
        /\ req[r].res.status = 400
        /\ ingested # <<>>

\* C23: the text extracted from a text/plain file is its buffer decoded as
\* UTF-8, byte run by byte run (an ASCII byte is its character, a byte that
\* is no valid UTF-8 becomes U+FFFD), and the step that extracts it does not
\* wait for the generative model
C23_PlainTextVerbatim ==
    [][ \A r \in Req :
          ( req[r].kind = "upload" /\ req[r].pc = "file" /\ req'[r] # req[r]
            /\ req[r].files[req[r].i].mimetype = "text/plain" )
          => LET buf == req[r].files[req[r].i].buffer
                 text == req'[r].extractedText
             IN /\ req'[r].pc # "extract"
                /\ Len(text) = Len(buf)
                /\ \A k \in 1..Len(buf) :
                     /\ text[k].n = buf[k].n
                     /\ buf[k].c < 128 => text[k].c = buf[k].c
                     /\ buf[k].c >= 128 => text[k].c = 65533
                /\ Processed(req'[r]) = Processed(req[r]) + 1 =>
                     ( ingested' # ingested => Last(ingested').content = text )
      ]_vars

\* a stored plain-text document whose buffer held a byte that is no valid UTF-8
C23_Witness ==
    \E g \in 1..Len(ingested) :
        \E k \in 1..Len(ingested[g].content) : ingested[g].content[k].c = 65533

\* C24: the result of a successful ingestion into session S reports the length
\* of the whole extracted text as textLength, and a documentId that starts
\* with S and '_'
C24_ResultTextLength ==
    [][ \A r \in Req :
          ( FileDone(r) /\ req'[r].results # req[r].results )
          => LET q == req'[r]
                 result == Last(q.results)
                 S == q.sessionId
             IN /\ result.success
                /\ result.textLength = length(q.extractedText)
                /\ Len(result.documentId) > Len(S)
                /\ SubSeq(result.documentId, 1, Len(S) + 1) = S \o <<"_">>
      ]_vars

\* a text longer than the stored copy went to the vector store and its result
\* reports the whole length
C24_Witness ==
    \E r \in Req :
        \E k \in 1..Len(req[r].results) :
            /\ req[r].kind = "upload"
            /\ req[r].results[k].storage = "pinecone"
            /\ req[r].results[k].textLength > 40000
            /\ req[r].results[k].documentId \in DOMAIN index
            /\ length(index[req[r].results[k].documentId].content) = 40000

\* C25: an upload works on one file at a time, in the order of the batch: the
\* file it works on is the one after those already ended in a result or an
\* error, the next file starts only in the step that ends the current one, and
\* each result or error is appended behind the earlier ones under the name of
\* the file just ended
C25_FilesInTurn ==
    [][ \A r \in Req :
          LET a == req[r]
              b == req'[r]
          IN ( a.kind = "upload" /\ b.kind = "upload" /\ b # a ) =>
               /\ a.pc \in {"file", "extract", "embed", "upsert"}
               /\ a.i = Processed(a) + 1
               /\ IF FileDone(r)
                  THEN /\ \/ b.pc = "file" /\ b.i = a.i + 1 /\ b.i <= Len(b.files)
                          \/ b.pc = "done" /\ b.i = a.i /\ a.i = Len(a.files)
                       /\ SubSeq(b.results, 1, Len(a.results)) = a.results
                       /\ SubSeq(b.errors, 1, Len(a.errors)) = a.errors
                       /\ b.results # a.results =>
                            Last(b.results).filename = a.files[a.i].originalname
                       /\ b.errors # a.errors =>
                            Last(b.errors).filename = a.files[a.i].originalname
                  ELSE /\ b.i = a.i
                       /\ b.results = a.results
                       /\ b.errors = a.errors
                       /\ b.pc \in {"extract", "embed", "upsert"}
      ]_vars

\* a batch of two files of different names, both stored
C25_Witness ==
    \E r \in Req :
        /\ req[r].kind = "upload"
        /\ req[r].pc = "done"
        /\ Len(req[r].results) = 2
        /\ req[r].files[1].originalname # req[r].files[2].originalname
        /\ req[r].results[1].filename = req[r].files[1].originalname
        /\ req[r].results[2].filename = req[r].files[2].originalname

\* C26: the record a storeDocument call writes to the index carries a prefix
\* of the text it was called with: as long as the text when the text has at
\* most 40000 characters, and 40000 characters long otherwise
C26_ContentTruncated ==
    [][ index' # index =>
          \E r \in Req :
              /\ req[r].pc = "upsert"
              /\ req'[r] # req[r]
              /\ LET text == req[r].extractedText
                     id == req[r].documentId
                     content == index'[id].content
                     n == Len(content)
                 IN /\ id \in DOMAIN index'
                    /\ \A other \in DOMAIN index : other # id => index'[other] = index[other]
                    /\ length(content) <= 40000
                    /\ length(content) = IF length(text) < 40000 THEN length(text) ELSE 40000
                    /\ n >= 1 /\ n <= Len(text)
                    /\ \A k \in 1..(n - 1) : content[k] = text[k]
                    /\ content[n].c = text[n].c
                    /\ content[n].n <= text[n].n
      ]_vars

\* the index holds a record cut to 40000 characters and a record that kept
\* its whole text
C26_Witness ==
    \E id1, id2 \in DOMAIN index :
        /\ length(index[id1].content) = 40000
        /\ \E g \in 1..Len(ingested) :
             ingested[g].documentId = id1 /\ length(ingested[g].content) > 40000
        /\ length(index[id2].content) < 40000
        /\ \E g \in 1..Len(ingested) :
             ingested[g].documentId = id2 /\ ingested[g].content = index[id2].content

\* C27: every upload past validation and every chat request sends its response
\* in the end; a response is sent in the step that ends the handler, once, and
\* the handler does nothing after it
C27_EveryRequestAnswered ==
    /\ \A r \in Req :
         ( req[r].kind \in {"upload", "chat"} ) ~> ( req[r].pc = "done" )
    /\ [][ \A r \in Req :
             LET a == req[r]
                 b == req'[r]
             IN b # a =>
                  /\ a.pc = "done" => b = IdleReq
                  /\ b.res # NoRes => a.res = NoRes /\ b.pc = "done"
                  /\ b.pc = "done" => b.res # NoRes /\ b.res.status \in {200, 400, 500}
         ]_vars

\* an upload answered with a stored file after a chat was answered
C27_Witness ==
    \E r \in Req :
        /\ req[r].kind = "upload"
        /\ req[r].pc = "done"
        /\ req[r].res.status = 200
        /\ Len(req[r].results) = 1
        /\ pushed # <<>>

\* C28: a step of an upload into session A leaves every stored document of
\* another session as it is, in the index, in fallbackDocuments and in the
\* in-memory variant's documents
C28_WriteIsolation ==
    [][ \A r \in Req :
          ( req[r].kind = "upload" /\ req'[r] # req[r] ) =>
            LET A == req[r].sessionId
            IN /\ \A id \in DOMAIN index :
                    index[id].sessionId # A =>
                        id \in DOMAIN index' /\ index'[id] = index[id]
               /\ \A k \in 1..Len(fallbackDocuments) :
                    fallbackDocuments[k].val.sessionId # A =>
                        k <= Len(fallbackDocuments') /\ fallbackDocuments'[k] = fallbackDocuments[k]
               /\ \A k \in 1..Len(documents) :
                    documents[k].val.sessionId # A =>
                        k <= Len(documents') /\ documents'[k] = documents[k]
      ]_vars

\* C29: every document a chat for session S builds its prompt from is tagged
\* with S and is the document of an ingestion into S, from whichever store it
\* came; a chat for a session nothing was ingested into has no document, the
\* plain prompt and documentsFound 0
C29_PromptIsolation ==
    \A r \in Req :
        Retrieved(r) =>
            LET S == req[r].sessionId
                docs == req[r].relevantDocs
                into == { g \in 1..Len(ingested) : ingested[g].sessionId = S }
            IN /\ \A k \in 1..Len(docs) :
                    /\ IF "sessionId" \in DOMAIN docs[k]
                       THEN docs[k].sessionId = S
                       ELSE docs[k].metadata.sessionId = S
                    /\ \E g \in into :
                         /\ ingested[g].documentId = docs[k].id
                         /\ docs[k].content \in { ingested[g].content,
                                                  substring(ingested[g].content, 40000) }
               /\ into = {} =>
                    /\ docs = <<>>
                    /\ ~req[r].prompt.grounded
                    /\ req[r].prompt.sections = <<>>
                    /\ ( req[r].pc = "done" /\ req[r].res.status = 200 ) =>
                         req[r].res.documentsFound = 0

\* a chat for a session without documents answered while the stores hold a
\* document of another session
C29_Witness ==
    \E r \in Req :
        /\ Retrieved(r)
        /\ req[r].pc = "done"
        /\ req[r].res.status = 200
        /\ req[r].res.documentsFound = 0
        /\ \A g \in 1..Len(ingested) : ingested[g].sessionId # req[r].sessionId
        /\ ingested # <<>>

\* C30: the step in which a chat succeeds with storage 'fallback' appends its
\* user message and its assistant message to the record of its session in
\* fallbackSessions
C30_FallbackConversationKept ==
    [][ \A r \in Req :
          ( variant = "pinecone" /\ ValidChat(r) /\ req[r].pc = "generate"
            /\ req'[r].pc = "done" /\ req'[r].res.status = 200
            /\ ~req'[r].res.warning /\ req'[r].res.storage = "fallback" )
          => LET S == req[r].sessionId
                 old == IF S \in DOMAIN fallbackSessions
                        THEN fallbackSessions[S].messages ELSE <<>>
             IN /\ S \in DOMAIN fallbackSessions'
                /\ Len(fallbackSessions'[S].messages) = Len(old) + 2
                /\ SubSeq(fallbackSessions'[S].messages, 1, Len(old)) = old
                /\ fallbackSessions'[S].messages[Len(old) + 1].role = "user"
                /\ fallbackSessions'[S].messages[Len(old) + 1].content = req[r].message
                /\ fallbackSessions'[S].messages[Len(old) + 2].role = "assistant"
                /\ fallbackSessions'[S].messages[Len(old) + 2].content = req'[r].res.text
      ]_vars

\* C31: the messages of every retained session (fallbackSessions, and sessions
\* of the in-memory variant) come in pairs: an even number of them, a user
\* message at every odd position and an assistant message right behind it;
\* the same holds of the transient session object of a chat
C31_MessagesAlternate ==
    /\ \A s \in DOMAIN fallbackSessions :
         LET m == fallbackSessions[s].messages
         IN /\ Len(m) % 2 = 0
            /\ \A k \in 1..Len(m) :
                 m[k].role = IF k % 2 = 1 THEN "user" ELSE "assistant"
    /\ \A s \in DOMAIN sessions :
         LET m == sessions[s].messages
         IN /\ Len(m) % 2 = 0
            /\ \A k \in 1..Len(m) :
                 m[k].role = IF k % 2 = 1 THEN "user" ELSE "assistant"
    /\ \A r \in Req :
         LET m == req[r].session.messages
         IN /\ Len(m) % 2 = 0
            /\ \A k \in 1..Len(m) :
                 m[k].role = IF k % 2 = 1 THEN "user" ELSE "assistant"

\* a retained session holding the messages of two chats that were in flight
\* at the same time
C31_Witness ==
    \E s \in (DOMAIN fallbackSessions) \cup (DOMAIN sessions) :
        LET m == IF s \in DOMAIN fallbackSessions
                 THEN fallbackSessions[s].messages ELSE sessions[s].messages
        IN /\ Len(m) = 4
           /\ \E r \in Req : req[r].kind = "chat" /\ req[r].pc = "done" /\ req[r].n = 1
           /\ Len(pushed) = 2
           /\ pushed[1].req = 2

\* C32: no step of a chat changes a stored document, and the messages of a
\* session (retained or transient) change only in the step in which a chat
\* is answered with success; a chat answered with the quota response or with
\* a failure leaves every message sequence as it was
C32_OnlySuccessAppends ==
    [][ /\ \A r \in Req :
             ChatStep(r) =>
               /\ index' = index
               /\ fallbackDocuments' = fallbackDocuments
               /\ documents' = documents
               /\ ingested' = ingested
        /\ ( \/ pushed' # pushed
             \/ \E s \in DOMAIN fallbackSessions' :
                  fallbackSessions'[s].messages #
                    IF s \in DOMAIN fallbackSessions THEN fallbackSessions[s].messages ELSE <<>>
             \/ \E s \in DOMAIN sessions' :
                  sessions'[s].messages #
                    IF s \in DOMAIN sessions THEN sessions[s].messages ELSE <<>>
             \/ \E r \in Req :
                  req'[r].kind = "chat" /\ req'[r].session.messages # req[r].session.messages )
           => \E r \in Req :
                /\ req[r].pc = "generate"
                /\ req'[r].pc = "done"
                /\ Succeeded(req'[r])
      ]_vars

\* a chat answered with the quota response after an earlier chat of the same
\* session stored its conversation
C32_Witness ==
    \E r \in Req :
        /\ ValidChat(r)
        /\ req[r].pc = "done"
        /\ Degraded(req[r])
        /\ Len(pushed) = 1
        /\ pushed[1].sessionId = req[r].sessionId
        /\ pushed[1].ref # "transient"

\* C33: the record of a session in fallbackSessions, and in sessions of the
\* in-memory variant, is created once and kept: every step leaves it under its
\* id with its creation time and with its messages as a prefix of the new
\* ones; and it holds two messages for every successful chat that resolved
\* the session from that map, also when the chats were in flight together
C33_NoLostMessages ==
    /\ [] ( /\ \A s \in DOMAIN fallbackSessions :
                 /\ fallbackSessions[s].id = s
                 /\ Len(fallbackSessions[s].messages) =
                      2 * Cardinality({ k \in 1..Len(pushed) :
                                          pushed[k].sessionId = s /\ pushed[k].ref = "fallback" })
            /\ \A s \in DOMAIN sessions :
                 /\ sessions[s].id = s
                 /\ Len(sessions[s].messages) =
                      2 * Cardinality({ k \in 1..Len(pushed) :
                                          pushed[k].sessionId = s /\ pushed[k].ref = "memory" })
            /\ \A k \in 1..Len(pushed) :
                 /\ pushed[k].ref = "fallback" => pushed[k].sessionId \in DOMAIN fallbackSessions
                 /\ pushed[k].ref = "memory" => pushed[k].sessionId \in DOMAIN sessions )
    /\ [][ /\ \A s \in DOMAIN fallbackSessions :
                /\ s \in DOMAIN fallbackSessions'
                /\ fallbackSessions'[s].createdAt = fallbackSessions[s].createdAt
                /\ SubSeq(fallbackSessions'[s].messages, 1, Len(fallbackSessions[s].messages))
                     = fallbackSessions[s].messages
           /\ \A s \in DOMAIN sessions :
                /\ s \in DOMAIN sessions'
                /\ sessions'[s].createdAt = sessions[s].createdAt
                /\ SubSeq(sessions'[s].messages, 1, Len(sessions[s].messages))
                     = sessions[s].messages
         ]_vars

\* two chats of one session in fallback mode, in flight together and answered
\* in the reverse of their submission order, both stored
C33_Witness ==
    /\ variant = "pinecone"
    /\ Len(pushed) = 2
    /\ pushed[1].req = 2
    /\ pushed[2].req = 1
    /\ pushed[1].ref = "fallback"
    /\ pushed[2].ref = "fallback"
    /\ pushed[1].sessionId = pushed[2].sessionId
    /\ Len(fallbackSessions[pushed[1].sessionId].messages) = 4

\* C34: the documents of a chat are the documents its search returned, when it
\* returned any, and otherwise documents of the fallback store only: every one
\* of them is then the full-text document of an ingestion that fell back, and
\* none is a search result
C34_OneTier ==
    \A r \in Req :
        ( variant = "pinecone" /\ Retrieved(r) ) =>
            LET found == req[r].pineconeSearchResult
                docs == req[r].relevantDocs
            IN IF found.success /\ Len(found.documents) > 0
               THEN /\ docs = found.documents
                    /\ \A k \in 1..Len(docs) :
                         /\ "sessionId" \notin DOMAIN docs[k]
                         /\ \E g \in 1..Len(ingested) :
                              /\ ingested[g].documentId = docs[k].id
                              /\ ingested[g].storage = "pinecone"
               ELSE \A k \in 1..Len(docs) :
                         /\ "sessionId" \in DOMAIN docs[k]
                         /\ \A m \in 1..Len(found.documents) : found.documents[m] # docs[k]
                         /\ \E g \in 1..Len(ingested) :
                              /\ ingested[g].documentId = docs[k].id
                              /\ ingested[g].storage = "fallback"
                              /\ ingested[g].content = docs[k].content

\* a chat that took its documents from the search while the fallback store
\* held documents of its session too
C34_Witness ==
    \E r \in Req :
        /\ variant = "pinecone"
        /\ Retrieved(r)
        /\ req[r].pineconeSearchResult.success
        /\ Len(req[r].pineconeSearchResult.documents) >= 1
        /\ req[r].relevantDocs = req[r].pineconeSearchResult.documents
        /\ \E k \in 1..Len(fallbackDocuments) :
             fallbackDocuments[k].val.sessionId = req[r].sessionId

\* C35: GET /session/S answers with storage 'pinecone' and the number of index
\* records tagged S (100 at most) when getSessionDocuments succeeded, and
\* otherwise with storage 'fallback' and the number of fallbackDocuments
\* entries whose session is S
C35_SessionCount ==
    \A r \in Req :
        ( variant = "pinecone" /\ req[r].kind = "session" /\ req[r].pc = "done" ) =>
            LET S == req[r].sessionId
                tagged == Cardinality({ id \in DOMAIN index : index[id].sessionId = S })
            IN /\ req[r].res.status = 200
               /\ req[r].res.sessionId = S
               /\ req[r].pineconeResult.defined
               /\ IF req[r].pineconeResult.success
                  THEN /\ req[r].res.storage = "pinecone"
                       /\ req[r].res.documentCount = IF tagged < 100 THEN tagged ELSE 100
                  ELSE /\ req[r].res.storage = "fallback"
                       /\ req[r].res.documentCount = Cardinality(FallbackPositions(S))

\* a session without documents counted on the fallback path while the fallback
\* store holds documents of another session
C35_Witness ==
    \E r \in Req :
        /\ variant = "pinecone"
        /\ req[r].kind = "session"
        /\ req[r].pc = "done"
        /\ req[r].res.storage = "fallback"
        /\ req[r].res.documentCount = 0
        /\ fallbackDocuments # <<>>

\* C36: when the embedding call of storeDocument fails, quota exhaustion
\* included, the file is stored with its full text in fallbackDocuments and
\* gets a success result of storage 'fallback'; when the embedding call of
\* searchDocuments fails, the chat goes on to the generative model with the
\* session's first documents of fallbackDocuments, no response sent and no
\* error recorded; a chat whose search failed is answered 500 or with the
\* quota warning only when the generative model's call was rejected
C36_EmbeddingFailureFallsBack ==
    [][ \A r \in Req :
          LET a == req[r]
              b == req'[r]
          IN /\ ( a.kind = "upload" /\ a.pc = "embed" /\ b # a /\ b.pc # "upsert" ) =>
                  /\ FileDone(r)
                  /\ b.errors = a.errors
                  /\ Last(b.results).success
                  /\ Last(b.results).storage = "fallback"
                  /\ Last(b.results).documentId = a.documentId
                  /\ b.pineconeResult.defined /\ ~b.pineconeResult.success
                  /\ "error" \in DOMAIN b.pineconeResult
                  /\ index' = index
                  /\ \E k \in 1..Len(fallbackDocuments') :
                       /\ fallbackDocuments'[k].val.id = a.documentId
                       /\ fallbackDocuments'[k].val.sessionId = a.sessionId
                       /\ fallbackDocuments'[k].val.content = a.extractedText
                  /\ b.pc = "done" => b.res.status = 200 /\ b.res.success
             /\ ( a.kind = "chat" /\ a.pc = "qembed" /\ b # a /\ b.pc # "query" ) =>
                  /\ b.pc = "generate"
                  /\ b.res = NoRes
                  /\ b.error = NoError
                  /\ b.pineconeSearchResult.defined /\ ~b.pineconeSearchResult.success
                  /\ "error" \in DOMAIN b.pineconeSearchResult
                  /\ LET n == Cardinality(FallbackPositions(a.sessionId))
                     IN /\ Len(b.relevantDocs) = IF n < 3 THEN n ELSE 3
                        /\ \A m \in 1..Len(b.relevantDocs) :
                             b.relevantDocs[m] =
                               fallbackDocuments[NthFallback(a.sessionId, m)].val
             /\ ( a.kind = "chat" /\ a.pc = "generate" /\ b.pc = "done"
                  /\ a.pineconeSearchResult.defined /\ ~a.pineconeSearchResult.success ) =>
                  /\ b.res.status \in {200, 500}
                  /\ ( b.res.status = 500 \/ b.res.warning ) => b.error # NoError
                  /\ b.res.status = 200 => b.res.storage = "fallback"
      ]_vars

\* a chat answered from a fallback document after its search failed on the
\* embedding model's quota, the index being healthy
C36_Witness ==
    \E r \in Req :
        /\ variant = "pinecone"
        /\ ValidChat(r)
        /\ req[r].pc = "done"
        /\ Succeeded(req[r])
        /\ req[r].healthCheck.success
        /\ ~req[r].pineconeSearchResult.success
        /\ includes(req[r].pineconeSearchResult.error, <<"q", "u", "o", "t", "a">>)
        /\ Len(req[r].relevantDocs) >= 1
        /\ req[r].res.storage = "fallback"

\* C37: when the extraction call of a file that is not plain text is rejected,
\* the file gets one error carrying its filename and the extraction-failure
\* message; the message names the exhausted quota exactly when the rejection has
\* status 429 or 'quota' in its message, and is the generic failure text for any
\* other rejection that carries a message; no result is added, no store
\* changes and the upload is not answered with a failure
C37_ExtractionFailureReported ==
    [][ \A r \in Req :
          LET a == req[r]
              b == req'[r]
          IN ( a.kind = "upload" /\ a.pc = "extract" /\ b.kind = "upload"
               /\ b.error # NoError ) =>
                 LET file == a.files[a.i]
                     e == b.error
                     prefix == <<"Failed to extract text from ">> \o file.originalname \o <<": ">>
                     quotaText == IF variant = "pinecone"
                                  THEN <<"API quota exceeded. Please try again later or upload PDF/TXT files for better processing.">>
                                  ELSE <<"API quota exceeded. Please try again later.">>
                     item == Last(b.errors)
                 IN /\ file.mimetype # "text/plain"
                    /\ FileDone(r)
                    /\ b.results = a.results
                    /\ b.errors = Append(a.errors, item)
                    /\ item.filename = file.originalname
                    /\ SubSeq(item.error, 1, Len(prefix)) = prefix
                    /\ Len(item.error) = Len(prefix) + 1
                    /\ QuotaRelated(e) <=> Last(item.error) = Last(quotaText)
                    /\ ( ~QuotaRelated(e) /\ e.hasMessage ) =>
                         Last(item.error) = "Failed to extract text from document"
                    /\ index' = index
                    /\ fallbackDocuments' = fallbackDocuments
                    /\ documents' = documents
                    /\ ingested' = ingested
                    /\ b.pc = "done" => b.res.status = 200 /\ b.res.success
      ]_vars

\* an upload answered 200 whose only file was refused by the extraction call
\* with a message naming the quota and no status 429
C37_Witness ==
    \E r \in Req :
        /\ req[r].kind = "upload"
        /\ req[r].pc = "done"
        /\ req[r].res.status = 200
        /\ req[r].error = ErrQuotaMsg
        /\ req[r].results = <<>>
        /\ Len(req[r].errors) = 1
        /\ req[r].errors[1].filename = req[r].files[1].originalname
        /\ Last(req[r].errors[1].error) \in
             {"API quota exceeded. Please try again later or upload PDF/TXT files for better processing.",
              "API quota exceeded. Please try again later."}

====
